---- MODULE Spec2Model ----
(***************************************************************************)
(* A model of pylon: the message envelope, the payload store protocol and  *)
(* the component runtime (runOnce / runForever / lambda_handler).          *)
(***************************************************************************)
EXTENDS Integers, Sequences, FiniteSets, TLC

VARIABLES
    cfg,          \* the component: adapters wired, offload options, driver
    pc,           \* position of the single thread of control
    shutdown,     \* GracefulLooper.shutdown
    cycleNo,      \* number of runOnce calls started so far
    source,       \* what the Source holds (files of the folder, queue entries)
    deleted,      \* what the Source committed (removed files, deleted entries)
    blobs,        \* the blob store: key -> stored content
    nextKey,      \* how many store keys (uuid4) were generated
    message,      \* the input message of the cycle (None without input)
    handle,       \* the raw Source entry the cycle holds inside the with-block
    step,         \* the IngestionStep of the cycle
    pending,      \* the part of the user function's result not yet iterated
    current,      \* the prepared output message about to be sent
    exc,          \* the exception that ended the cycle: [type, origin]
    allow,        \* the value catchAllExceptionsToLog popped from the keyword arguments
    kwargsSeen,   \* names of the keyword arguments the wrapped runOnce received
    propagated,   \* the exception that left runOnce towards its caller
    sink,         \* messages the Sink received: <<cycle, message>> in order
    log,          \* log records: <<cycle, kind>> in order
    hist,         \* what the running cycle did so far (check-out, user call), in order
    signals,      \* termination signals received: <<cycle, phase>> at arrival
    nextId,       \* how many ingestion ids (uuid1) were generated
    durationSeconds, \* coreFunction.durationSeconds, set by the timed wrapper
    results,      \* what the user function returned in the running cycle
    op            \* payload store / codec exerciser: last operation and its operands

vars == <<cfg, pc, shutdown, cycleNo, source, deleted, blobs, nextKey, message,
          handle, step, pending, current, exc, allow, kwargsSeen, propagated, sink,
          log, hist, signals, nextId, durationSeconds, results, op>>

----------------------------------------------------------------------------
(* Bounds of the model *)

MaxCycles == 2
MaxQueue == 2
MaxResults == 2
MaxOps == 4
MaxSignals == 1
MaxRows == 1
MaxStepOps == 4
MaxLen == 7
MaxChunkSize == 4

----------------------------------------------------------------------------
(* Python values: None and str are kept apart, so that str(None) = 'None'  *)
(* is a conversion and not the identity.                                   *)

None == [t |-> "none"]

\* a name that is not bound yet
Unset == [t |-> "unset"]
Str(s) == [t |-> "str", v |-> s]
IsNone(x) == x.t = "none"

\* a JsonSerializable object: a DataAsset (its ingestionId and the
\* 'ingestion_id' of each row of its data) or an IngestionStep (no rows)
Obj(cls, ingestionId, rows) ==
    [t |-> "obj", cls |-> cls, ingestionId |-> ingestionId, rows |-> rows]

\* a dict body (the event of a LambdaEvent), by its text
Dict(text) == [t |-> "dict", v |-> text]

\* JSON text of a value: null for None, a quoted string otherwise
JsonValue(x) == IF x.t = "none" THEN "null" ELSE "'" \o x.v \o "'"

RECURSIVE JsonRows(_)
JsonRows(rows) ==
    IF rows = <<>> THEN ""
    ELSE JsonValue(Head(rows)) \o "," \o JsonRows(Tail(rows))

\* JsonSerializable.toJSON: the object as a JSON string
toJSON(o) ==
    Str("{" \o o.cls \o ":" \o JsonValue(o.ingestionId) \o "[" \o JsonRows(o.rows) \o "]}")

\* identifiers an object may carry: those of the producers and of the runtime
ObjectIds == {None, Str("old")} \cup {Str("i" \o ToString(n)) : n \in 0..MaxCycles}

\* the objects JSON texts are read back into
JsonObjects ==
    {Obj(c, i, r) : c \in {"DataAsset"}, i \in ObjectIds,
                    r \in UNION {[1..n -> ObjectIds] : n \in 0..MaxRows}}
    \cup {Obj("IngestionStep", i, <<>>) : i \in ObjectIds}

\* cls.fromJSON: json.loads needs a str holding JSON; the object is rebuilt
\* from the text of its class
fromJSON(cls, x) ==
    IF x.t # "str" THEN [exc |-> "TypeError", obj |-> None]
    ELSE IF \E o \in JsonObjects : toJSON(o) = x
    THEN LET o == CHOOSE o \in JsonObjects : toJSON(o) = x
         IN  [exc |-> "", obj |-> Obj(cls, o.ingestionId, o.rows)]
    ELSE [exc |-> "JSONDecodeError", obj |-> None]

\* str(value): 'None' for None, the JSON text for a JsonSerializable (__repr__)
PyStr(x) == IF x.t = "none" THEN "None" ELSE IF x.t = "obj" THEN toJSON(x).v ELSE x.v

\* bool(value): None and '' are falsy
Truthy(x) == x.t # "none" /\ ~(x.t = "str" /\ x.v = "")

EmptyDict == [k \in {} |-> ""]

\* no exception
NoExc == [type |-> "", origin |-> ""]

RECURSIVE DictItemsLen(_, _)
DictItemsLen(d, keys) ==
    IF keys = {} THEN 0
    ELSE LET k == CHOOSE x \in keys : TRUE
         IN  (Len(k) + 2) + 2 + (Len(d[k]) + 2) + DictItemsLen(d, keys \ {k})

\* len(str(d)) of a dict of str -> str: "{'k': 'v', 'k2': 'v2'}"
DictStrLen(d) ==
    LET n == Cardinality(DOMAIN d)
    IN  2 + DictItemsLen(d, DOMAIN d) + (IF n > 1 THEN 2 * (n - 1) ELSE 0)

----------------------------------------------------------------------------
(* models/messages.py *)

OT_DATA_ASSET == "dataAsset"
OT_INGESTION_STEP == "ingestionStep"
OT_RAW_CONTENT == "rawContent"
OT_LAMBDA_EVENT == "lambdaEvent"

OT_NULL == "null"

\* BaseMessage.__init__ followed by the assignments of a producer; cls is the
\* class of the instance, which is not one of its __slots__
BaseMessage(body, mime, objectType) ==
    [cls |-> "BaseMessage",
     body |-> body, payloadMimeType |-> mime, objectType |-> objectType,
     customAttributes |-> EmptyDict, payloadStoreKey |-> None,
     ingestionId |-> None, artifactName |-> None, artifactVersion |-> None]

NullMessage ==
    [BaseMessage(Str(""), Str("text"), Str(OT_NULL)) EXCEPT !.cls = "NullMessage"]

IngestionMessage(body) ==
    [BaseMessage(body, Str("text/json"), Str(OT_INGESTION_STEP))
        EXCEPT !.cls = "IngestionMessage"]

DataAssetMessage(dataAsset) ==
    [BaseMessage(dataAsset, Str("text/json"), Str(OT_DATA_ASSET))
        EXCEPT !.cls = "DataAssetMessage"]

LambdaEvent(event) ==
    [BaseMessage(event, Str("text/json"), Str(OT_LAMBDA_EVENT))
        EXCEPT !.cls = "LambdaEvent"]

isCheckedIn(m) == ~IsNone(m.payloadStoreKey)

\* the class of the body a message class serializes
BodyClass(cls) == IF cls = "DataAssetMessage" THEN "DataAsset" ELSE "IngestionStep"

\* serializeBody: pass, but body.toJSON() for DataAssetMessage and
\* IngestionMessage (AttributeError when the body has no toJSON)
serializeBody(m) ==
    IF m.cls \notin {"DataAssetMessage", "IngestionMessage"} THEN [exc |-> "", msg |-> m]
    ELSE IF m.body.t # "obj" THEN [exc |-> "AttributeError", msg |-> m]
    ELSE [exc |-> "", msg |-> [m EXCEPT !.body = toJSON(m.body)]]

\* deserializeBody: pass, but fromJSON(body) for DataAssetMessage and IngestionMessage
deserializeBody(m) ==
    IF m.cls \notin {"DataAssetMessage", "IngestionMessage"} THEN [exc |-> "", msg |-> m]
    ELSE LET r == fromJSON(BodyClass(m.cls), m.body)
         IN  IF r.exc # "" THEN [exc |-> r.exc, msg |-> m]
             ELSE [exc |-> "", msg |-> [m EXCEPT !.body = r.obj]]

\* BaseMessage.__eq__: the items of __slots__ are compared, the class is not
MessageEq(a, b) == [a EXCEPT !.cls = ""] = [b EXCEPT !.cls = ""]

\* sum of len(str(key)) over __slots__: 'body' and the seven attribute names
SlotNamesLen ==
    Len("body") + Len("artifactName") + Len("artifactVersion")
    + Len("customAttributes") + Len("ingestionId") + Len("objectType")
    + Len("payloadMimeType") + Len("payloadStoreKey")

\* a size that would count the values only (variant, not the code)
getApproxSizeOfValues(m) ==
    Len(PyStr(m.body)) + Len(PyStr(m.artifactName)) + Len(PyStr(m.artifactVersion))
    + DictStrLen(m.customAttributes) + Len(PyStr(m.ingestionId))
    + Len(PyStr(m.objectType)) + Len(PyStr(m.payloadMimeType))
    + Len(PyStr(m.payloadStoreKey))

\* BaseMessage.getApproxSize: len(str(key)) + len(str(value)) over items()
getApproxSize(m) ==
    SlotNamesLen
    + Len(PyStr(m.body)) + Len(PyStr(m.artifactName)) + Len(PyStr(m.artifactVersion))
    + DictStrLen(m.customAttributes) + Len(PyStr(m.ingestionId))
    + Len(PyStr(m.objectType)) + Len(PyStr(m.payloadMimeType))
    + Len(PyStr(m.payloadStoreKey))

----------------------------------------------------------------------------
(* Strings with a scheme prefix: startswith and slicing are computed by    *)
(* concatenation over the suffixes the model uses.                         *)

uuid(n) == "u" \o ToString(n)

Suffixes ==
    {"store", "in/a", "in/b", "tmp/x", "q", "topic", "dir"}
    \cup {"store/" \o uuid(n) : n \in 0..(MaxOps + MaxCycles * MaxResults + 2)}

\* s.startswith(p)
startswith(s, p) == \E r \in Suffixes : s = p \o r

----------------------------------------------------------------------------
(* config.py: the options the runtime reads *)

PyInt(n) == [t |-> "int", v |-> n]

\* config.get('PYLON_STORE_DESTINATION'), config.get('PYLON_STORE_MIN_MESSAGE_BYTES')
StoreConfig(dest, minBytes) ==
    [PYLON_STORE_DESTINATION |-> dest, PYLON_STORE_MIN_MESSAGE_BYTES |-> minBytes]

----------------------------------------------------------------------------
(* aws/s3.py: MessageStore.  A call returns [exc, msg, blobs, nextKey]:    *)
(* exc = "" on a normal return.                                            *)

Returned(m, b, k) == [exc |-> "", msg |-> m, blobs |-> b, nextKey |-> k]
Raised(e, m, b, k) == [exc |-> e, msg |-> m, blobs |-> b, nextKey |-> k]

\* copy.deepcopy(message): the call works on a copy, the caller's object is
\* left as it was given
deepcopy(m, r) == [caller |-> m] @@ r

\* a store that would name every blob alike (variant, not the code)
getPathFixed(prefix, k) == prefix \o "/" \o uuid(0)

\* MessageStore._getPath: '/'.join([prefix, str(uuid.uuid4())])
getPath(prefix, k) == prefix \o "/" \o uuid(k)

\* Bucket.put with encoding='utf-8': content.encode(encoding)
Encoded(body) == [t |-> "bytes", v |-> body.v]

\* bytes.decode('utf-8')
Decoded(content) == Str(content.v)

\* a check-in that would leave the content in the body (variant, not the code)
checkInPayloadKeepBody(prefix, m, b, k) ==
    LET ser == serializeBody(m)
        key == getPath(prefix, k)
    IN  deepcopy(m,
            IF ser.exc # "" THEN Raised(ser.exc, m, b, k)
            ELSE IF ser.msg.body.t # "str"
            THEN Raised("AttributeError", m, b, k + 1)
            ELSE Returned([ser.msg EXCEPT !.payloadStoreKey = Str(key)],
                          [x \in DOMAIN b \cup {key} |->
                              IF x = key THEN Encoded(ser.msg.body) ELSE b[x]],
                          k + 1))

\* a check-in that would work on the caller's object (variant, not the code)
checkInPayloadInPlace(prefix, m, b, k) ==
    LET ser == serializeBody(m)
        key == getPath(prefix, k)
        checkedIn == [ser.msg EXCEPT !.payloadStoreKey = Str(key), !.body = Str(key)]
    IN  IF ser.exc # "" THEN [caller |-> m] @@ Raised(ser.exc, m, b, k)
        ELSE IF ser.msg.body.t # "str"
        THEN [caller |-> ser.msg] @@ Raised("AttributeError", m, b, k + 1)
        ELSE [caller |-> checkedIn]
             @@ Returned(checkedIn,
                         [x \in DOMAIN b \cup {key} |->
                             IF x = key THEN Encoded(ser.msg.body) ELSE b[x]],
                         k + 1)

\* MessageStore.checkInPayload on the store with this prefix: the copy's body
\* is serialized, then put under a new key (content.encode: AttributeError
\* unless the content is a str)
checkInPayload(prefix, m, b, k) ==
    LET ser == serializeBody(m)
        key == getPath(prefix, k)
    IN  deepcopy(m,
            IF ser.exc # "" THEN Raised(ser.exc, m, b, k)
            ELSE IF ser.msg.body.t # "str"
            THEN Raised("AttributeError", m, b, k + 1)
            ELSE Returned([ser.msg EXCEPT !.payloadStoreKey = Str(key), !.body = Str(key)],
                          [x \in DOMAIN b \cup {key} |->
                              IF x = key THEN Encoded(ser.msg.body) ELSE b[x]],
                          k + 1))

\* a check-out that would hand back a message without a key (variant, not the code)
checkOutPayloadLenient(m, b, k) ==
    deepcopy(m,
        IF IsNone(m.payloadStoreKey) THEN Returned(m, b, k)
        ELSE IF ~startswith(PyStr(m.payloadStoreKey), "s3://")
        THEN Raised("ValueError", m, b, k)
        ELSE IF PyStr(m.payloadStoreKey) \notin DOMAIN b
        THEN Raised("ClientError", m, b, k)
        ELSE LET de == deserializeBody(
                           [m EXCEPT !.body = Decoded(b[PyStr(m.payloadStoreKey)])])
             IN  IF de.exc # "" THEN Raised(de.exc, m, b, k)
                 ELSE Returned([de.msg EXCEPT !.payloadStoreKey = None], b, k))

\* MessageStore.checkOutPayload: s3.getObject -> splitPath raises on None
\* (no startswith) and on a path without 's3://'; the read raises on a missing key
checkOutPayload(m, b, k) ==
    deepcopy(m,
        IF IsNone(m.payloadStoreKey) THEN Raised("AttributeError", m, b, k)
        ELSE IF ~startswith(PyStr(m.payloadStoreKey), "s3://")
        THEN Raised("ValueError", m, b, k)
        ELSE IF PyStr(m.payloadStoreKey) \notin DOMAIN b
        THEN Raised("ClientError", m, b, k)
        ELSE LET de == deserializeBody(
                           [m EXCEPT !.body = Decoded(b[PyStr(m.payloadStoreKey)])])
             IN  IF de.exc # "" THEN Raised(de.exc, m, b, k)
                 ELSE Returned([de.msg EXCEPT !.payloadStoreKey = None], b, k))

----------------------------------------------------------------------------
(* component.py: the offload decision *)

\* _getStoreFromConfig: the prefix of the store, None, or NotImplementedError
getStoreFromConfig(config) ==
    LET storeDestination == config.PYLON_STORE_DESTINATION
    IN  IF IsNone(storeDestination) THEN [exc |-> "", store |-> None]
        ELSE IF startswith(storeDestination.v, "s3://")
        THEN [exc |-> "", store |-> storeDestination]
        ELSE [exc |-> "NotImplementedError", store |-> None]

\* an offload step that would compare with > (variant, not the code)
storeMessageBodyStrictlyAbove(m, config, b, k) ==
    IF isCheckedIn(m) THEN Returned(m, b, k)
    ELSE LET got == getStoreFromConfig(config)
             min_body_size_bytes == config.PYLON_STORE_MIN_MESSAGE_BYTES
         IN  IF got.exc # "" THEN Raised(got.exc, m, b, k)
             ELSE IF /\ ~IsNone(got.store)
                     /\ ~IsNone(min_body_size_bytes)
                     /\ getApproxSize(m) > min_body_size_bytes.v
             THEN checkInPayload(got.store.v, m, b, k)
             ELSE Returned(m, b, k)

\* an offload step that would not look at payloadStoreKey (variant, not the code)
storeMessageBodyAgain(m, config, b, k) ==
    LET got == getStoreFromConfig(config)
        min_body_size_bytes == config.PYLON_STORE_MIN_MESSAGE_BYTES
    IN  IF got.exc # "" THEN Raised(got.exc, m, b, k)
        ELSE IF /\ ~IsNone(got.store)
                /\ ~IsNone(min_body_size_bytes)
                /\ getApproxSize(m) >= min_body_size_bytes.v
        THEN checkInPayload(got.store.v, m, b, k)
        ELSE Returned(m, b, k)

\* _storeMessageBody
storeMessageBody(m, config, b, k) ==
    IF isCheckedIn(m) THEN Returned(m, b, k)
    ELSE LET got == getStoreFromConfig(config)
             min_body_size_bytes == config.PYLON_STORE_MIN_MESSAGE_BYTES
         IN  IF got.exc # "" THEN Raised(got.exc, m, b, k)
             ELSE IF /\ ~IsNone(got.store)
                     /\ ~IsNone(min_body_size_bytes)
                     /\ getApproxSize(m) >= min_body_size_bytes.v
             THEN checkInPayload(got.store.v, m, b, k)
             ELSE Returned(m, b, k)


----------------------------------------------------------------------------
(* aws/_common.py and io/_common.py: the envelope codec *)

FixedNames ==
    {"payloadMimeType", "objectType", "ingestionId", "artifactName", "artifactVersion"}

Placeholder == "filling message body with a string so it is not empty"

\* a wire body that would be left empty (variant, not the code)
wireBodyAsItIs(m) == IF m.body.t = "obj" THEN toJSON(m.body) ELSE m.body

\* the body on the wire: toJSON of a JsonSerializable, the placeholder for a
\* falsy body
wireBody(m) ==
    LET body == IF m.body.t = "obj" THEN toJSON(m.body) ELSE m.body
    IN  IF Truthy(body) THEN body ELSE Str(Placeholder)

\* encodeMessage of aws/_common.py: {'body': ..., 'attributes': {name: StringValue}};
\* the custom attributes update the fixed ones, then ingestionId is set again
\* for an ingestion step and payloadStoreKey for a checked-in message
encodeMessage(m) ==
    LET custom == m.customAttributes
        names == FixedNames \cup DOMAIN custom
                 \cup (IF isCheckedIn(m) THEN {"payloadStoreKey"} ELSE {})
        value(k) == IF k = "payloadStoreKey" /\ isCheckedIn(m)
                    THEN PyStr(m.payloadStoreKey)
                    ELSE IF k = "ingestionId" /\ m.objectType = Str(OT_INGESTION_STEP)
                    THEN PyStr(m.ingestionId)
                    ELSE IF k \in DOMAIN custom THEN custom[k]
                    ELSE PyStr(m[k])
    IN  [body |-> wireBody(m),
         attributes |-> [k \in names |-> value(k)]]

\* encode_message of io/_common.py: the attribute values are left as they are
encode_message(m) ==
    LET custom == m.customAttributes
        names == FixedNames \cup DOMAIN custom
                 \cup (IF isCheckedIn(m) THEN {"payloadStoreKey"} ELSE {})
        value(k) == IF k = "payloadStoreKey" /\ isCheckedIn(m)
                    THEN m.payloadStoreKey
                    ELSE IF k = "ingestionId" /\ m.objectType = Str(OT_INGESTION_STEP)
                    THEN m.ingestionId
                    ELSE IF k \in DOMAIN custom THEN Str(custom[k])
                    ELSE m[k]
    IN  [body |-> wireBody(m),
         attributes |-> [k \in names |-> value(k)]]

\* sqs.Message._decode: the attributes of a received queue entry are its StringValues
stringValues(attributes) == [k \in DOMAIN attributes |-> Str(attributes[k])]

\* 'None' read back as None (ingestionId, artifactName, artifactVersion, payloadStoreKey)
NoneIfNoneText(s) == IF s = "None" THEN None ELSE Str(s)

\* the body of a message that is not checked in is rebuilt from JSON when the
\* objectType says it is a data asset or an ingestion step
rebuildBody(m) ==
    LET cls == IF m.objectType = Str(OT_DATA_ASSET) THEN "DataAsset"
               ELSE IF m.objectType = Str(OT_INGESTION_STEP) THEN "IngestionStep"
               ELSE ""
        r == fromJSON(cls, m.body)
    IN  IF cls = "" THEN [exc |-> "", msg |-> m]
        ELSE IF r.exc # "" THEN [exc |-> r.exc, msg |-> None]
        ELSE [exc |-> "", msg |-> [m EXCEPT !.body = r.obj]]

\* decodeMessage of aws/_common.py
decodeMessage(body, attributes) ==
    IF ~(FixedNames \subseteq DOMAIN attributes)
    THEN [exc |-> "KeyError", msg |-> None]
    ELSE LET m == [cls |-> "BaseMessage",
                   body |-> body,
                   payloadMimeType |-> Str(attributes["payloadMimeType"]),
                   objectType |-> Str(attributes["objectType"]),
                   ingestionId |-> NoneIfNoneText(attributes["ingestionId"]),
                   artifactName |-> NoneIfNoneText(attributes["artifactName"]),
                   artifactVersion |-> NoneIfNoneText(attributes["artifactVersion"]),
                   payloadStoreKey |->
                       IF "payloadStoreKey" \in DOMAIN attributes
                       THEN NoneIfNoneText(attributes["payloadStoreKey"])
                       ELSE None,
                   customAttributes |->
                       [k \in DOMAIN attributes \ (FixedNames \cup {"payloadStoreKey"})
                           |-> attributes[k]]]
         IN  IF isCheckedIn(m) THEN [exc |-> "", msg |-> m] ELSE rebuildBody(m)

\* decode_message of io/_common.py: the attribute values are taken as they are
decode_message(body, attributes) ==
    IF ~(FixedNames \subseteq DOMAIN attributes)
    THEN [exc |-> "KeyError", msg |-> None]
    ELSE LET m == [cls |-> "BaseMessage",
                   body |-> body,
                   payloadMimeType |-> attributes["payloadMimeType"],
                   objectType |-> attributes["objectType"],
                   ingestionId |-> attributes["ingestionId"],
                   artifactName |-> attributes["artifactName"],
                   artifactVersion |-> attributes["artifactVersion"],
                   payloadStoreKey |->
                       IF "payloadStoreKey" \in DOMAIN attributes
                       THEN attributes["payloadStoreKey"]
                       ELSE None,
                   customAttributes |->
                       [k \in DOMAIN attributes \ (FixedNames \cup {"payloadStoreKey"})
                           |-> attributes[k].v]]
         IN  IF isCheckedIn(m) THEN [exc |-> "", msg |-> m] ELSE rebuildBody(m)

----------------------------------------------------------------------------
(* component.py: the rehydration *)

\* a rehydration that would leave the store key on the message (variant, not the code)
retrieveMessageBodyKeepsKey(m, b, k) ==
    IF ~isCheckedIn(m) THEN Raised("ValueError", m, b, k)
    ELSE IF startswith(PyStr(m.payloadStoreKey), "s3://")
    THEN LET out == checkOutPayload(m, b, k)
             re == rebuildBody(out.msg)
         IN  IF out.exc # "" THEN out
             ELSE IF re.exc # "" THEN [out EXCEPT !.exc = re.exc, !.msg = m]
             ELSE [out EXCEPT !.msg = [re.msg EXCEPT !.payloadStoreKey = m.payloadStoreKey]]
    ELSE Raised("NotImplementedError", m, b, k)

\* a retrieval that would hand on a message of another store as it is
\* (variant, not the code)
retrieveMessageBodyLenient(m, b, k) ==
    IF ~isCheckedIn(m) THEN Raised("ValueError", m, b, k)
    ELSE IF startswith(PyStr(m.payloadStoreKey), "s3://")
    THEN LET out == checkOutPayload(m, b, k)
             re == rebuildBody(out.msg)
         IN  IF out.exc # "" THEN out
             ELSE IF re.exc # "" THEN [out EXCEPT !.exc = re.exc, !.msg = m]
             ELSE [out EXCEPT !.msg = re.msg]
    ELSE Returned(m, b, k)

\* _retrieveMessageBody: check-out, then the body is rebuilt from JSON by objectType
retrieveMessageBody(m, b, k) ==
    IF ~isCheckedIn(m) THEN Raised("ValueError", m, b, k)
    ELSE IF startswith(PyStr(m.payloadStoreKey), "s3://")
    THEN LET out == checkOutPayload(m, b, k)
             re == rebuildBody(out.msg)
         IN  IF out.exc # "" THEN out
             ELSE IF re.exc # "" THEN [out EXCEPT !.exc = re.exc, !.msg = m]
             ELSE [out EXCEPT !.msg = re.msg]
    ELSE Raised("NotImplementedError", m, b, k)

----------------------------------------------------------------------------
(* The payload store protocol and the codec applied, in any order, to a    *)
(* message a producer constructed: SpecStore.                              *)

\* bodies of the producers' messages; none of them is a store key
Contents == {"hell", "hello", "hello!", "a"}

\* a data asset and an ingestion step of an earlier ingestion
OldAsset == Obj("DataAsset", Str("old"), <<Str("old")>>)
OldStep == Obj("IngestionStep", Str("old"), <<>>)

\* messages as a producer constructs them: payloadStoreKey is left to pylon
ProducerMessages ==
    {BaseMessage(Str(c), Str("text"), Str(OT_RAW_CONTENT)) : c \in Contents \ {"a"}}
    \cup {[BaseMessage(Str("a"), Str("text"), Str(OT_RAW_CONTENT))
            EXCEPT !.customAttributes = [k \in {"k"} |-> "v"]],
          [BaseMessage(Str("a"), Str("text"), Str(OT_RAW_CONTENT))
            EXCEPT !.ingestionId = Str("parent"), !.artifactName = Str("img"),
                   !.artifactVersion = Str("1")],
          [BaseMessage(Str("a"), Str("text"), Str(OT_RAW_CONTENT))
            EXCEPT !.customAttributes = [k \in {"objectType"} |-> "v"]],
          BaseMessage(None, Str("text"), Str(OT_NULL)),
          NullMessage,
          DataAssetMessage(OldAsset),
          IngestionMessage(OldStep),
          LambdaEvent(Dict("{'k': 1}"))}

StoreDestinations == {None, Str("s3://store"), Str("gcs://store")}

MinBytesChoices == {None, PyInt(getApproxSize(BaseMessage(Str("hello"), Str("text"), Str(OT_RAW_CONTENT)))),
                    PyInt(0)}

NoWire == [codec |-> "", body |-> None, attributes |-> EmptyDict]

\* the variables of the runtime, unused by the exerciser
RuntimeIdle ==
    /\ pc = "store"
    /\ shutdown = FALSE
    /\ cycleNo = 0
    /\ source = <<>>
    /\ deleted = <<>>
    /\ message = None
    /\ handle = None
    /\ step = None
    /\ pending = <<>>
    /\ current = None
    /\ exc = NoExc
    /\ allow = FALSE
    /\ kwargsSeen = {}
    /\ propagated = NoExc
    /\ sink = <<>>
    /\ log = <<>>
    /\ hist = <<>>
    /\ signals = <<>>
    /\ nextId = 0
    /\ durationSeconds = None
    /\ results = Unset

RuntimeUnchanged ==
    UNCHANGED <<pc, shutdown, cycleNo, source, deleted, message, handle, step,
                pending, current, exc, allow, kwargsSeen, propagated, sink, log,
                hist, signals, nextId, durationSeconds, results>>

InitStore ==
    /\ RuntimeIdle
    /\ \E d \in StoreDestinations, mb \in MinBytesChoices : cfg = StoreConfig(d, mb)
    /\ blobs = EmptyDict
    /\ nextKey = 0
    /\ \E m \in ProducerMessages :
          op = [last |-> "new", prev |-> "", arg |-> m, arg0 |-> m, msg |-> m,
                caller |-> m, wire |-> NoWire, codec |-> "", exc |-> "", k0 |-> 0,
                n |-> 0]

\* the exerciser's record after an operation on the message in hand: arg is
\* the message the operation was given, arg0 the one the operation before it
\* was given, caller the given message as the operation left it
Stepped(name, m, caller, e) ==
    [op EXCEPT !.last = name, !.prev = op.last, !.arg = op.msg, !.arg0 = op.arg,
               !.msg = m, !.caller = caller, !.exc = e, !.k0 = nextKey,
               !.n = op.n + 1]

\* a store call applied to the message in hand; a call that made no copy
\* and returned its argument left the caller's object alone
Applied(name, r) ==
    /\ op' = Stepped(name, IF r.exc = "" THEN r.msg ELSE op.msg,
                     IF "caller" \in DOMAIN r THEN r.caller ELSE op.msg, r.exc)
    /\ blobs' = r.blobs
    /\ nextKey' = r.nextKey
    /\ UNCHANGED cfg
    /\ RuntimeUnchanged

OpCheckIn ==
    /\ op.n < MaxOps
    /\ Applied("checkIn", checkInPayload("s3://store", op.msg, blobs, nextKey))

OpCheckOut ==
    /\ op.n < MaxOps
    /\ Applied("checkOut", checkOutPayload(op.msg, blobs, nextKey))

OpOffload ==
    /\ op.n < MaxOps
    /\ Applied("offload", storeMessageBody(op.msg, cfg, blobs, nextKey))

OpRetrieve ==
    /\ op.n < MaxOps
    /\ Applied("retrieve", retrieveMessageBody(op.msg, blobs, nextKey))

\* the message in hand is encoded by either codec
OpEncode ==
    /\ op.n < MaxOps
    /\ \E codec \in {"aws", "io"} :
          op' = [Stepped("encode", op.msg, op.msg, "") EXCEPT
                    !.wire = [codec |-> codec] @@
                             (IF codec = "aws" THEN encodeMessage(op.msg)
                              ELSE encode_message(op.msg))]
    /\ UNCHANGED <<cfg, durationSeconds, results, blobs, nextKey>>
    /\ RuntimeUnchanged

\* the decoders that read what a codec encoded: its own, and for what went
\* through a queue decode_message on the StringValues
Decoders(codec) == IF codec = "io" THEN {"decode_message"} ELSE {"decodeMessage", "sqs"}

Decoding(decoder, wire) ==
    IF decoder = "decodeMessage" THEN decodeMessage(wire.body, wire.attributes)
    ELSE IF decoder = "sqs" THEN decode_message(wire.body, stringValues(wire.attributes))
    ELSE decode_message(wire.body, wire.attributes)

OpDecode ==
    /\ op.n < MaxOps
    /\ op.wire # NoWire
    /\ \E decoder \in Decoders(op.wire.codec) :
          LET r == Decoding(decoder, op.wire)
          IN  op' = [Stepped("decode", IF r.exc = "" THEN r.msg ELSE op.msg, op.msg, r.exc)
                        EXCEPT !.codec = decoder]
    /\ UNCHANGED <<cfg, durationSeconds, results, blobs, nextKey>>
    /\ RuntimeUnchanged

NextStore ==
    \/ OpCheckIn
    \/ OpCheckOut
    \/ OpOffload
    \/ OpRetrieve
    \/ OpEncode
    \/ OpDecode

SpecStore == InitStore /\ [][NextStore]_vars

----------------------------------------------------------------------------
(* utils/__init__.py: the generator chunked(iterable, chunkSize), step by  *)
(* step.  source is the iterator, pending the chunk being filled, sink the *)
(* chunks yielded so far.                                                  *)

\* iterable = iter(iterable), before the first pass of the while loop
InitChunk ==
    /\ \E n \in 0..MaxLen, k \in 1..MaxChunkSize :
          /\ cfg = [iterable |-> [i \in 1..n |-> i], chunkSize |-> k]
          /\ source = [i \in 1..n |-> i]
    /\ pc = "fill"
    /\ pending = <<>>
    /\ sink = <<>>
    /\ shutdown = FALSE
    /\ cycleNo = 0
    /\ deleted = <<>>
    /\ blobs = EmptyDict
    /\ nextKey = 0
    /\ message = None
    /\ handle = None
    /\ step = None
    /\ current = None
    /\ exc = NoExc
    /\ allow = FALSE
    /\ kwargsSeen = {}
    /\ propagated = NoExc
    /\ log = <<>>
    /\ hist = <<>>
    /\ signals = <<>>
    /\ nextId = 0
    /\ durationSeconds = None
    /\ results = Unset
    /\ op = [last |-> "new", n |-> 0]

ChunkUnchanged ==
    UNCHANGED <<cfg, shutdown, cycleNo, deleted, blobs, nextKey, message, handle, step,
                current, exc, allow, kwargsSeen, propagated, log, hist, signals, nextId,
                durationSeconds, results, op>>

\* for _ in range(chunkSize): chunk.append(next(iterable))
ChunkAppend ==
    /\ pc = "fill"
    /\ Len(pending) < cfg.chunkSize
    /\ source # <<>>
    /\ pending' = Append(pending, Head(source))
    /\ source' = Tail(source)
    /\ UNCHANGED <<pc, sink>>
    /\ ChunkUnchanged

\* the for loop is done: yield chunk, and chunk = [] in the next pass of
\* the while loop
ChunkYield ==
    /\ pc = "fill"
    /\ Len(pending) = cfg.chunkSize
    /\ sink' = Append(sink, pending)
    /\ pending' = <<>>
    /\ UNCHANGED <<pc, source>>
    /\ ChunkUnchanged

\* next(iterable) raises StopIteration: break
ChunkStop ==
    /\ pc = "fill"
    /\ Len(pending) < cfg.chunkSize
    /\ source = <<>>
    /\ pc' = "tail"
    /\ UNCHANGED <<source, pending, sink>>
    /\ ChunkUnchanged

\* a generator that would yield what is left, empty or not
\* (variant, not the code)
ChunkTailAlways ==
    /\ pc = "tail"
    /\ sink' = Append(sink, pending)
    /\ pc' = "done"
    /\ UNCHANGED <<source, pending>>
    /\ ChunkUnchanged

\* if len(chunk) > 0: yield chunk; the generator returns
ChunkTail ==
    /\ pc = "tail"
    /\ sink' = IF Len(pending) > 0 THEN Append(sink, pending) ELSE sink
    /\ pc' = "done"
    /\ UNCHANGED <<source, pending>>
    /\ ChunkUnchanged

NextChunk ==
    \/ ChunkAppend
    \/ ChunkYield
    \/ ChunkStop
    \/ ChunkTail

\* the consumer iterates the generator to its end
SpecChunk == InitChunk /\ [][NextChunk]_vars /\ WF_vars(NextChunk)

----------------------------------------------------------------------------
(* The codecs applied to messages whose custom attributes may carry the    *)
(* name of an attribute of the envelope                                    *)

\* a text message, an ingestion step message and a checked-in message, each
\* with no custom attribute or with one custom attribute of any name
CodecMessages ==
    LET bases == {[BaseMessage(Str("a"), Str("text"), Str(OT_RAW_CONTENT))
                      EXCEPT !.ingestionId = Str("parent"), !.artifactName = Str("img"),
                             !.artifactVersion = Str("1")],
                  [IngestionMessage(OldStep) EXCEPT !.ingestionId = Str("old")],
                  [BaseMessage(Str("s3://in/a"), Str("text"), Str(OT_RAW_CONTENT))
                      EXCEPT !.payloadStoreKey = Str("s3://in/a")]}
        customs == {EmptyDict}
                   \cup {[k \in {name} |-> "v"] : name \in FixedNames \cup {"payloadStoreKey", "k"}}
    IN  {[m EXCEPT !.customAttributes = c] : m \in bases, c \in customs}

InitCodec ==
    /\ RuntimeIdle
    /\ cfg = StoreConfig(None, None)
    /\ blobs = EmptyDict
    /\ nextKey = 0
    /\ \E m \in CodecMessages :
          op = [last |-> "new", prev |-> "", arg |-> m, arg0 |-> m, msg |-> m,
                caller |-> m, wire |-> NoWire, codec |-> "", exc |-> "", k0 |-> 0,
                n |-> 0]

NextCodec ==
    \/ OpEncode
    \/ OpDecode

SpecCodec == InitCodec /\ [][NextCodec]_vars

----------------------------------------------------------------------------
(* models/ingestion.py and component.py: lineage *)

\* str(uuid.uuid1()): a fresh identifier per call
uuid1(n) == "i" \o ToString(n)

\* IngestionStep.__init__
IngestionStep ==
    [ingestionId |-> Str(""), parentIngestionId |-> None, artifactName |-> Str(""),
     artifactVersion |-> Str(""), metadata |-> EmptyDict]

\* a metadata update that would replace the mapping (variant, not the code)
updateMetadataReplace(st, newMetadata) == [st EXCEPT !.metadata = newMetadata]

\* IngestionStep.updateMetadata: dict.update
updateMetadata(st, newMetadata) ==
    [st EXCEPT !.metadata =
        [k \in DOMAIN st.metadata \cup DOMAIN newMetadata |->
            IF k \in DOMAIN newMetadata THEN newMetadata[k] ELSE st.metadata[k]]]

\* IngestionStep.populate: a new id, the parent, the artifact fields the
\* configuration has, and the configured INGESTION_ATTRS merged into metadata
populate(st, config, parentIngestionId, n) ==
    LET named == [st EXCEPT
                     !.ingestionId = Str(uuid1(n)),
                     !.parentIngestionId = parentIngestionId,
                     !.artifactName = IF IsNone(config.IMAGE_NAME) THEN @
                                      ELSE config.IMAGE_NAME,
                     !.artifactVersion = IF IsNone(config.VERSION) THEN @
                                         ELSE config.VERSION]
    IN  IF "INGESTION_ATTRS" \in DOMAIN config
        THEN updateMetadata(named, config.INGESTION_ATTRS)
        ELSE named

\* IngestionStep() followed by populate(config, parentIngestionId)
populateStep(config, parentIngestionId, n) ==
    populate(IngestionStep, config, parentIngestionId, n)

\* a step that would not know its parent (variant, not the code)
getIngestionStepOrphan(config, m, n) == populateStep(config, None, n)

\* _getIngestionStep
getIngestionStep(config, m, n) ==
    populateStep(config, IF m = None THEN None ELSE m.ingestionId, n)

\* a stamping that would keep an ingestionId the message already has
\* (variant, not the code)
populateMessageAttributesIfUnset(m, st) ==
    LET id == IF IsNone(m.ingestionId) THEN st.ingestionId ELSE m.ingestionId
        stamped == [m EXCEPT !.ingestionId = id,
                             !.artifactName = st.artifactName,
                             !.artifactVersion = st.artifactVersion]
    IN  IF m.objectType = Str(OT_DATA_ASSET)
        THEN [stamped EXCEPT !.body =
                 Obj(m.body.cls, id, [i \in DOMAIN m.body.rows |-> id])]
        ELSE stamped

\* _populateMessageAttributes: the copy is stamped; the DataAsset of a data
\* asset message gets the id too, and so does every row of its data
populateMessageAttributes(m, st) ==
    LET stamped == [m EXCEPT !.ingestionId = st.ingestionId,
                             !.artifactName = st.artifactName,
                             !.artifactVersion = st.artifactVersion]
    IN  IF m.objectType = Str(OT_DATA_ASSET)
        THEN [stamped EXCEPT !.body =
                 Obj(m.body.cls, st.ingestionId,
                     [i \in DOMAIN m.body.rows |-> st.ingestionId])]
        ELSE stamped

----------------------------------------------------------------------------
(* The component: its configuration, its Source and what the user function *)
(* may return.                                                             *)

\* messages waiting at a Source
InPlain ==
    [BaseMessage(Str("hello"), Str("text"), Str(OT_RAW_CONTENT))
        EXCEPT !.ingestionId = Str("parent")]

InStored ==
    [InPlain EXCEPT !.body = Str("s3://in/a"), !.payloadStoreKey = Str("s3://in/a"),
                    !.ingestionId = Str("parent-a")]

InForeign ==
    [InPlain EXCEPT !.body = Str("gcs://in/a"), !.payloadStoreKey = Str("gcs://in/a"),
                    !.ingestionId = Str("parent-g")]

\* a data asset message that was checked in and sent by another component
InStoredAsset ==
    [BaseMessage(Str("s3://in/b"), Str("text/json"), Str(OT_DATA_ASSET))
        EXCEPT !.ingestionId = Str("parent-b"), !.payloadStoreKey = Str("s3://in/b")]

InputPool == {InPlain, InStored, InForeign, InStoredAsset}

\* the blobs of InStored and InStoredAsset
InitialBlobs ==
    [x \in {"s3://in/a", "s3://in/b"} |->
        IF x = "s3://in/a" THEN Encoded(Str("hello"))
        ELSE Encoded(toJSON(Obj("DataAsset", Str("old"), <<Str("old")>>)))]

\* messages the user function returns: a short text, and a data asset message
\* on which the user function set lineage fields itself
OutSmall == BaseMessage(Str("a"), Str("text"), Str(OT_RAW_CONTENT))
OutBig ==
    [DataAssetMessage(Obj("DataAsset", None, <<Str("old")>>))
        EXCEPT !.ingestionId = Str("mine"), !.artifactName = Str("mine")]

Msg(m) == [t |-> "msg", v |-> m]
List(s) == [t |-> "list", v |-> s]

\* a generator that yields these items when it is iterated
Gen(s) == [t |-> "gen", v |-> s]

ResultItems == {None, Msg(OutSmall), Msg(OutBig)}

\* a bare None, a single message, a list of messages and Nones, or a
\* generator of two messages or of a None and a message
UserResults ==
    {None, Msg(OutSmall)}
    \cup {List(s) : s \in UNION {[1..n -> ResultItems] : n \in 0..MaxResults}}
    \cup {Gen(<<Msg(OutSmall), Msg(OutBig)>>), Gen(<<None, Msg(OutSmall)>>)}

\* a normalisation that would take a single message for no result
\* (variant, not the code)
AsIterableOrNothing(r) == IF r.t \in {"list", "gen"} THEN r.v ELSE <<>>

\* isinstance(results, typing.Iterable), else [results]
AsIterable(r) == IF r.t \in {"list", "gen"} THEN r.v ELSE <<r>>

\* exceptions the user function raises
UserExceptions == {"Exception", "NoMessagesAvailable"}

\* exceptions a Sink raises from sendMessage
SinkExceptions == {"MessageTooLarge", "Exception"}

\* the threshold that separates OutSmall from OutBig once they are stamped
Threshold ==
    getApproxSize(populateMessageAttributes(OutBig, populateStep(
        [IMAGE_NAME |-> Str("img"), VERSION |-> Str("1")], None, 0)))

StoreOptions ==
    {<<None, None>>, <<Str("s3://store"), PyInt(Threshold)>>, <<Str("gcs://store"), PyInt(0)>>}

\* the file of the folder source: the message's attributes as a JSON object;
\* the entry of a queue or of a lambda event: body and message attributes
rawOf(input, m) == IF input = "folder" THEN m ELSE encodeMessage(m)

\* io/folder.py _decode: every attribute is set from the JSON object; the body
\* of a data asset or ingestion step is read as JSON, checked in or not
folderDecode(raw) ==
    LET m == [cls |-> "BaseMessage", body |-> raw.body,
              payloadMimeType |-> raw.payloadMimeType,
              objectType |-> raw.objectType, customAttributes |-> raw.customAttributes,
              payloadStoreKey |-> raw.payloadStoreKey, ingestionId |-> raw.ingestionId,
              artifactName |-> raw.artifactName, artifactVersion |-> raw.artifactVersion]
    IN  rebuildBody(m)

Entries(input, q) == [i \in 1..Len(q) |-> [id |-> i, raw |-> rawOf(input, q[i])]]

Queues(input) ==
    {Entries(input, q) : q \in UNION {[1..n -> InputPool] : n \in 0..MaxQueue}}

ComponentConfig(store, hasInput, hasOutput, input, driver) ==
    [PYLON_STORE_DESTINATION |-> store[1], PYLON_STORE_MIN_MESSAGE_BYTES |-> store[2],
     IMAGE_NAME |-> Str("img"), VERSION |-> Str("1"),
     hasInput |-> hasInput, hasOutput |-> hasOutput, input |-> input, driver |-> driver]

\* runForever on a folder or queue source, lambda_handler on the event's pseudo-queue
Wirings ==
    {<<"runForever", "folder">>, <<"runForever", "sqs">>, <<"runForever", "none">>,
     <<"lambda_handler", "pseudo">>, <<"lambda_handler", "none">>}

IdleOp ==
    [last |-> "idle", prev |-> "", arg |-> None, arg0 |-> None, msg |-> None,
     caller |-> None, wire |-> NoWire, codec |-> "", exc |-> "", k0 |-> 0, n |-> 0]

Init ==
    /\ \E store \in StoreOptions, w \in Wirings, hasOutput \in BOOLEAN :
          /\ cfg = ComponentConfig(store, w[2] # "none", hasOutput, w[2], w[1])
          /\ source \in (IF w[2] = "none" THEN {<<>>} ELSE Queues(w[2]))
    /\ pc = "loop"
    /\ shutdown = FALSE
    /\ cycleNo = 0
    /\ deleted = <<>>
    /\ blobs = InitialBlobs
    /\ nextKey = 0
    /\ message = None
    /\ handle = None
    /\ step = None
    /\ pending = <<>>
    /\ current = None
    /\ exc = NoExc
    /\ allow = FALSE
    /\ kwargsSeen = {}
    /\ propagated = NoExc
    /\ sink = <<>>
    /\ log = <<>>
    /\ hist = <<>>
    /\ signals = <<>>
    /\ nextId = 0
    /\ durationSeconds = None
    /\ results = Unset
    /\ op = IdleOp

----------------------------------------------------------------------------
(* models/ingestion.py: one IngestionStep under any sequence of populate   *)
(* and updateMetadata calls                                                *)

MetadataKeys == {"source", "rows", "durationSeconds"}

\* the dicts a caller passes to updateMetadata, or configures as INGESTION_ATTRS
Metadatas == UNION {[ks -> {"1", "2"}] : ks \in SUBSET MetadataKeys}

InitStep ==
    /\ \E configured \in BOOLEAN, attrs \in Metadatas :
          LET config == ComponentConfig(<<None, None>>, FALSE, FALSE, "none", "runForever")
          IN  cfg = IF configured THEN [INGESTION_ATTRS |-> attrs] @@ config
                    ELSE config
    /\ pc = "step"
    /\ shutdown = FALSE
    /\ cycleNo = 0
    /\ source = <<>>
    /\ deleted = <<>>
    /\ blobs = EmptyDict
    /\ nextKey = 0
    /\ message = None
    /\ handle = None
    /\ step = IngestionStep
    /\ pending = <<>>
    /\ current = None
    /\ exc = NoExc
    /\ allow = FALSE
    /\ kwargsSeen = {}
    /\ propagated = NoExc
    /\ sink = <<>>
    /\ log = <<>>
    /\ hist = <<>>
    /\ signals = <<>>
    /\ nextId = 0
    /\ durationSeconds = None
    /\ results = Unset
    /\ op = IdleOp

StepUnchanged ==
    UNCHANGED <<cfg, pc, shutdown, cycleNo, source, deleted, blobs, nextKey, message,
                handle, pending, current, exc, allow, kwargsSeen, propagated, sink,
                log, hist, signals, durationSeconds, results>>

\* step.populate(config, parentIngestionId)
OpPopulate ==
    /\ op.n < MaxStepOps
    /\ \E parent \in {None, Str("parent")} : step' = populate(step, cfg, parent, nextId)
    /\ nextId' = nextId + 1
    /\ op' = [op EXCEPT !.last = "populate", !.prev = op.last, !.n = op.n + 1]
    /\ StepUnchanged

\* step.updateMetadata(newMetadata)
OpUpdateMetadata ==
    /\ op.n < MaxStepOps
    /\ \E newMetadata \in Metadatas : step' = updateMetadata(step, newMetadata)
    /\ op' = [op EXCEPT !.last = "updateMetadata", !.prev = op.last, !.n = op.n + 1]
    /\ UNCHANGED nextId
    /\ StepUnchanged

NextStep ==
    \/ OpPopulate
    \/ OpUpdateMetadata

SpecStep == InitStep /\ [][NextStep]_vars

----------------------------------------------------------------------------
(* interfaces/entrypoint.py, component.py, io/: the construction of a      *)
(* component from its configuration                                        *)

\* s[n:]
slice(s, n) == SubSeq(s, n + 1, Len(s))

\* the methods the adapter classes of io/ define themselves
Methods(cls) ==
    CASE cls = "FolderMessageProducerConsumer" -> {"__init__", "getMessage", "sendMessage"}
      [] cls = "QueueMessageProducerConsumer" -> {"__init__", "get_messages", "send_messages"}
      [] cls = "TopicMessageConsumer" -> {"__init__", "send_messages"}

\* cls(arg): a class that leaves an abstract method of MessageProducer
\* (getMessage) or MessageConsumer (sendMessage) undefined cannot be
\* instantiated (abc.ABC raises TypeError before __init__ runs)
New(cls, arg) ==
    LET inherited == IF cls = "TopicMessageConsumer" THEN {"sendMessage"}
                     ELSE {"getMessage", "sendMessage"}
    IN  IF inherited \ Methods(cls) # {}
        THEN [exc |-> "TypeError", adapter |-> None]
        ELSE [exc |-> "", adapter |-> [cls |-> cls, arg |-> arg]]

\* _getInputFromConfig; config['PYLON_INPUT'] of a missing key is a KeyError
getInputFromConfig(config) ==
    LET inp == config.PYLON_INPUT
    IN  IF IsNone(inp) THEN [exc |-> "KeyError", adapter |-> None]
        ELSE IF startswith(inp.v, "sqs://")
        THEN New("QueueMessageProducerConsumer", slice(inp.v, 6))
        ELSE IF startswith(inp.v, "folder://")
        THEN New("FolderMessageProducerConsumer", slice(inp.v, 9))
        ELSE [exc |-> "NotImplementedError", adapter |-> None]

\* _getOutputFromConfig
getOutputFromConfig(config) ==
    LET output == config.PYLON_OUTPUT
    IN  IF IsNone(output) THEN [exc |-> "KeyError", adapter |-> None]
        ELSE IF startswith(output.v, "sns://")
        THEN New("TopicMessageConsumer", slice(output.v, 6))
        ELSE IF startswith(output.v, "sqs://")
        THEN New("QueueMessageProducerConsumer", slice(output.v, 6))
        ELSE IF startswith(output.v, "folder://")
        THEN New("FolderMessageProducerConsumer", slice(output.v, 9))
        ELSE [exc |-> "NotImplementedError", adapter |-> None]

\* makeAdapters of the four component classes: the attributes it sets, or
\* the exception of the first adapter that fails.  NullComponent leaves the
\* abstract makeAdapters of Entrypoint undefined and cannot be instantiated.
makeAdapters(kind, config) ==
    LET inp == IF kind \in {"PipelineComponent", "SinkComponent"}
               THEN getInputFromConfig(config) ELSE [exc |-> "", adapter |-> Unset]
        out == IF kind \in {"PipelineComponent", "SourceComponent"}
               THEN getOutputFromConfig(config) ELSE [exc |-> "", adapter |-> Unset]
    IN  IF kind = "NullComponent"
        THEN [exc |-> "TypeError", inputMessageProducer |-> Unset,
              outputMessageConsumer |-> Unset]
        ELSE IF inp.exc # ""
        THEN [exc |-> inp.exc, inputMessageProducer |-> Unset, outputMessageConsumer |-> Unset]
        ELSE IF out.exc # ""
        THEN [exc |-> out.exc, inputMessageProducer |-> inp.adapter,
              outputMessageConsumer |-> Unset]
        ELSE [exc |-> "", inputMessageProducer |-> inp.adapter,
              outputMessageConsumer |-> out.adapter]

\* values of PYLON_INPUT, PYLON_OUTPUT and PYLON_STORE_DESTINATION; None
\* for an option that is not configured
Uris ==
    {None, Str("sqs://q"), Str("sns://topic"), Str("folder://dir"), Str("s3://store"),
     Str("folder:/dir")}

\* the decorated function before Entrypoint.__init__ has run
InitBuild ==
    /\ \E kind \in {"PipelineComponent", "SourceComponent", "SinkComponent",
                     "NullComponent"},
          inp \in Uris, out \in Uris,
          dest \in {None, Str("s3://store"), Str("gcs://store")} :
          cfg = [kind |-> kind, PYLON_INPUT |-> inp, PYLON_OUTPUT |-> out,
                 PYLON_STORE_DESTINATION |-> dest, PYLON_STORE_MIN_MESSAGE_BYTES |-> PyInt(0)]
    /\ pc = "new"
    /\ shutdown = FALSE
    /\ cycleNo = 0
    /\ source = <<>>
    /\ deleted = <<>>
    /\ blobs = EmptyDict
    /\ nextKey = 0
    /\ message = None
    /\ handle = None
    /\ step = None
    /\ pending = <<>>
    /\ current = None
    /\ exc = NoExc
    /\ allow = FALSE
    /\ kwargsSeen = {}
    /\ propagated = NoExc
    /\ sink = <<>>
    /\ log = <<>>
    /\ hist = <<>>
    /\ signals = <<>>
    /\ nextId = 0
    /\ durationSeconds = None
    /\ results = Unset
    /\ op = [exc |-> "", inputMessageProducer |-> Unset, outputMessageConsumer |-> Unset]

BuildUnchanged ==
    UNCHANGED <<cfg, shutdown, source, deleted, blobs, nextKey, message, handle, step,
                pending, current, exc, allow, kwargsSeen, sink, log, hist, signals,
                nextId, durationSeconds, results>>

\* Entrypoint.__init__: the configuration is read and makeAdapters is
\* called; an exception leaves the constructor and no component exists
Construct ==
    /\ pc = "new"
    /\ op' = makeAdapters(cfg.kind, cfg)
    /\ pc' = IF op'.exc = "" THEN "constructed" ELSE "raised"
    /\ propagated' = IF op'.exc = "" THEN NoExc ELSE [type |-> op'.exc, origin |-> "constructor"]
    /\ UNCHANGED cycleNo
    /\ BuildUnchanged

\* runOnce is called on the component that was constructed
CycleStarts ==
    /\ pc = "constructed"
    /\ cycleNo < MaxCycles
    /\ cycleNo' = cycleNo + 1
    /\ UNCHANGED <<pc, propagated, op>>
    /\ BuildUnchanged

NextBuild ==
    \/ Construct
    \/ CycleStarts

SpecBuild == InitBuild /\ [][NextBuild]_vars

----------------------------------------------------------------------------
(* aws/lambda_.py: a PseudoQueue under any sequence of with-statements on  *)
(* getMessage                                                              *)

\* the records of an event: encoded messages, and a record that carries no
\* message attributes
EventRecords ==
    {encodeMessage(m) : m \in InputPool} \cup {[body |-> Str("test"), attributes |-> EmptyDict]}

\* PseudoQueue.__init__: self.queue = event["Records"][:] (or [event]),
\* self.deleted = []
InitPseudo ==
    /\ \E n \in 0..MaxQueue : \E q \in [1..n -> EventRecords] :
          source = [i \in 1..n |-> [id |-> i, raw |-> q[i]]]
    /\ cfg = [input |-> "pseudo"]
    /\ pc = "queue"
    /\ shutdown = FALSE
    /\ cycleNo = 0
    /\ deleted = <<>>
    /\ blobs = EmptyDict
    /\ nextKey = 0
    /\ message = None
    /\ handle = None
    /\ step = None
    /\ pending = <<>>
    /\ current = None
    /\ exc = NoExc
    /\ allow = FALSE
    /\ kwargsSeen = {}
    /\ propagated = NoExc
    /\ sink = <<>>
    /\ log = <<>>
    /\ hist = <<>>
    /\ signals = <<>>
    /\ nextId = 0
    /\ durationSeconds = None
    /\ results = Unset
    /\ op = [last |-> "new", n |-> 0]

PseudoUnchanged ==
    UNCHANGED <<cfg, shutdown, cycleNo, blobs, nextKey, step, pending, current, allow,
                kwargsSeen, propagated, sink, log, signals, nextId, durationSeconds,
                results>>

\* with queue.getMessage() as message, up to the yield: pop(0) raises
\* IndexError on an empty list; the popped record is decoded; hist holds the
\* ids of the records whose message was yielded
PseudoGet ==
    /\ pc = "queue"
    /\ op.n < MaxOps
    /\ op' = [last |-> "getMessage", n |-> op.n + 1]
    /\ IF source = <<>>
       THEN /\ exc' = [type |-> "IndexError", origin |-> "source"]
            /\ UNCHANGED <<pc, source, message, handle, hist>>
       ELSE LET rawMessage == Head(source)
                r == decodeMessage(rawMessage.raw.body, rawMessage.raw.attributes)
            IN  /\ source' = Tail(source)
                /\ IF r.exc # ""
                   THEN /\ exc' = [type |-> r.exc, origin |-> "codec"]
                        /\ UNCHANGED <<pc, message, handle, hist>>
                   ELSE /\ exc' = NoExc
                        /\ message' = r.msg
                        /\ handle' = rawMessage
                        /\ hist' = Append(hist, rawMessage.id)
                        /\ pc' = "body"
    /\ UNCHANGED deleted
    /\ PseudoUnchanged

\* the with-body ends normally: the generator resumes after its yield,
\* self.deleted.append(rawMessage)
PseudoBodyCompletes ==
    /\ pc = "body"
    /\ deleted' = Append(deleted, handle)
    /\ pc' = "queue"
    /\ op' = [op EXCEPT !.last = "exit"]
    /\ UNCHANGED <<source, message, handle, exc, hist>>
    /\ PseudoUnchanged

\* a generator that would append in a finally clause (variant, not the code)
PseudoBodyRaisesDeletes ==
    /\ pc = "body"
    /\ exc' = [type |-> "Exception", origin |-> "user"]
    /\ deleted' = Append(deleted, handle)
    /\ pc' = "queue"
    /\ op' = [op EXCEPT !.last = "raise"]
    /\ UNCHANGED <<source, message, handle, hist>>
    /\ PseudoUnchanged

\* the with-body raises: the exception is thrown into the generator at its
\* yield and leaves it, the append is not reached
PseudoBodyRaises ==
    /\ pc = "body"
    /\ exc' = [type |-> "Exception", origin |-> "user"]
    /\ pc' = "queue"
    /\ op' = [op EXCEPT !.last = "raise"]
    /\ UNCHANGED <<source, deleted, message, handle, hist>>
    /\ PseudoUnchanged

NextPseudo ==
    \/ PseudoGet
    \/ PseudoBodyCompletes
    \/ PseudoBodyRaises

SpecPseudo == InitPseudo /\ [][NextPseudo]_vars

----------------------------------------------------------------------------
(* component.py, utils/__init__.py: one cycle of runOnce, step by step *)

\* where control goes when runOnce returns to its caller
AfterRunOnce == IF cfg.driver = "runForever" THEN "sleep" ELSE "loop"

LogRecord(level, text) == [cycle |-> cycleNo, level |-> level, text |-> text]

\* IngestionStep.toJSON(): the step's fields as one JSON document
stepToJSON(st) == [json |-> "IngestionStep", fields |-> st]

\* logging.info(f'INGESTION_STEP: {ingestionStep.toJSON()}')
StepRecord(st) ==
    [cycle |-> cycleNo, level |-> "info", text |-> "INGESTION_STEP",
     step |-> stepToJSON(st)]

\* total / 1000 as the timed wrapper measured it around the user function's
\* call of cycle `call`
Seconds(call) == [t |-> "float", call |-> call]

\* a wrapper that would let every exception through (variant, not the code)
UnwindRaisesAlways(e, origin) ==
    /\ exc' = [type |-> e, origin |-> origin]
    /\ pc' = "raised"
    /\ propagated' = [type |-> e, origin |-> origin]
    /\ UNCHANGED log

\* An exception leaves the cycle.  The context manager of the Source is left
\* without its commit step; runOnce passes on NoMessagesAvailable of
\* interfaces.messaging when it has an input; catchAllExceptionsToLog either
\* lets the exception through (flag popped as true) or logs it.
Raise(ex) ==
    /\ exc' = ex
    /\ IF cfg.hasInput /\ ex.type = "NoMessagesAvailable"
       THEN /\ pc' = AfterRunOnce
            /\ UNCHANGED <<log, propagated>>
       ELSE IF allow
       THEN /\ pc' = "raised"
            /\ propagated' = ex
            /\ UNCHANGED log
       ELSE /\ pc' = AfterRunOnce
            /\ log' = Append(log, LogRecord("exception", ex.type))
            /\ UNCHANGED propagated

\* an exception of this class, raised at this place of the cycle
Unwind(e, origin) == Raise([type |-> e, origin |-> origin])

\* the text of the MessageTooLarge that _sendMessages raises
TooLargeHint ==
    "Failed to send message because it is too large. Try using "
    \o "PYLON_STORE_DESTINATION and PYLON_STORE_MIN_MESSAGE_BYTES to store the body"
    \o "of large messages before sending them."

\* a step of the cycle that completes and leaves the log alone
Continue(next) ==
    /\ pc' = next
    /\ UNCHANGED <<exc, log, propagated>>

\* the wrapper of catchAllExceptionsToLog is called with these keyword
\* arguments, pops the flag and calls runOnce with the rest
RunOnceCalled(kwargs) ==
    /\ cycleNo' = cycleNo + 1
    /\ allow' = IF "PYLON_ALLOW_EXCEPTIONS" \in DOMAIN kwargs
                THEN kwargs["PYLON_ALLOW_EXCEPTIONS"] ELSE FALSE
    /\ kwargsSeen' = DOMAIN kwargs \ {"PYLON_ALLOW_EXCEPTIONS"}
    /\ message' = None
    /\ handle' = None
    /\ step' = None
    /\ pending' = <<>>
    /\ current' = None
    /\ exc' = NoExc
    /\ hist' = <<>>
    /\ results' = Unset
    /\ pc' = IF cfg.hasInput THEN "fetch" ELSE "lineage"
    /\ UNCHANGED <<cfg, durationSeconds, shutdown, source, deleted, blobs, nextKey, propagated, sink,
                   log, signals, nextId, op>>

\* a loop that would not look at the shutdown flag (variant, not the code)
LoopCheckIgnoresSignal ==
    /\ pc = "loop"
    /\ cfg.driver = "runForever"
    /\ cycleNo < MaxCycles
    /\ RunOnceCalled([k \in {} |-> TRUE])

\* GracefulLooper.runForever: while not self.shutdown: func()
LoopCheck ==
    /\ pc = "loop"
    /\ cfg.driver = "runForever"
    /\ IF shutdown
       THEN /\ pc' = "returned"
            /\ UNCHANGED <<cfg, durationSeconds, results, shutdown, cycleNo, source, deleted, blobs, nextKey,
                           message, handle, step, pending, current, exc, allow,
                           kwargsSeen, propagated, sink, log, hist, signals, nextId, op>>
       ELSE /\ cycleNo < MaxCycles
            /\ RunOnceCalled([k \in {} |-> TRUE])

\* lambda_handler: while len(self.inputMessageProducer) > 0: runOnce(flag),
\* or a single runOnce(flag) without input
LambdaLoop ==
    /\ pc = "loop"
    /\ cfg.driver = "lambda_handler"
    /\ IF (cfg.hasInput /\ Len(source) > 0) \/ (~cfg.hasInput /\ cycleNo = 0)
       THEN RunOnceCalled([k \in {"PYLON_ALLOW_EXCEPTIONS"} |-> TRUE])
       ELSE /\ pc' = "returned"
            /\ UNCHANGED <<cfg, durationSeconds, results, shutdown, cycleNo, source, deleted, blobs, nextKey,
                           message, handle, step, pending, current, exc, allow,
                           kwargsSeen, propagated, sink, log, hist, signals, nextId, op>>

\* the Source yields the decoded message of this entry, or the decoding raises
Deliver(entry, r) ==
    IF r.exc # ""
    THEN Unwind(r.exc, "codec") /\ UNCHANGED <<message, handle>>
    ELSE message' = r.msg /\ handle' = entry /\ Continue("lineage")

\* FolderMessageProducerConsumer.getMessage up to its yield
FetchFolder ==
    /\ pc = "fetch"
    /\ cfg.input = "folder"
    /\ IF source = <<>>
       THEN Unwind("NoMessagesAvailable", "source") /\ UNCHANGED <<message, handle>>
       ELSE \E i \in 1..Len(source) : Deliver(source[i], folderDecode(source[i].raw))
    /\ UNCHANGED <<cfg, durationSeconds, results, shutdown, cycleNo, source, deleted, blobs, nextKey, step,
                   pending, current, allow, kwargsSeen, sink, hist, signals, nextId, op>>

\* aws.sqs.Queue.get_message up to its yield; the exception of an empty queue
\* is the class defined in aws/sqs.py
FetchQueue ==
    /\ pc = "fetch"
    /\ cfg.input = "sqs"
    /\ IF source = <<>>
       THEN Unwind("sqs.NoMessagesAvailable", "source") /\ UNCHANGED <<message, handle>>
       ELSE \E i \in 1..Len(source) :
               Deliver(source[i], decode_message(source[i].raw.body,
                                                 stringValues(source[i].raw.attributes)))
    /\ UNCHANGED <<cfg, durationSeconds, results, shutdown, cycleNo, source, deleted, blobs, nextKey, step,
                   pending, current, allow, kwargsSeen, sink, hist, signals, nextId, op>>

\* PseudoQueue.getMessage up to its yield: self.queue.pop(0)
FetchPseudo ==
    /\ pc = "fetch"
    /\ cfg.input = "pseudo"
    /\ IF source = <<>>
       THEN Unwind("IndexError", "source") /\ UNCHANGED <<message, handle, source>>
       ELSE /\ source' = Tail(source)
            /\ Deliver(Head(source), decodeMessage(Head(source).raw.body,
                                                   Head(source).raw.attributes))
    /\ UNCHANGED <<cfg, durationSeconds, results, shutdown, cycleNo, deleted, blobs, nextKey, step,
                   pending, current, allow, kwargsSeen, sink, hist, signals, nextId, op>>

\* the read of the folder or the receive call of the queue raises
FetchFails ==
    /\ pc = "fetch"
    /\ cfg.input \in {"folder", "sqs"}
    /\ source # <<>>
    /\ Unwind("Exception", "source")
    /\ UNCHANGED <<cfg, durationSeconds, results, shutdown, cycleNo, source, deleted, blobs, nextKey, message,
                   handle, step, pending, current, allow, kwargsSeen, sink, hist,
                   signals, nextId, op>>

\* _runOnce: ingestionStep = self._getIngestionStep(message)
Lineage ==
    /\ pc = "lineage"
    /\ step' = getIngestionStep(cfg, message, nextId)
    /\ nextId' = nextId + 1
    /\ Continue("input")
    /\ UNCHANGED <<cfg, durationSeconds, results, shutdown, cycleNo, source, deleted, blobs, nextKey, message,
                   handle, pending, current, allow, kwargsSeen, sink, hist, signals, op>>

\* _processInput: a checked-in input is retrieved first
Retrieve ==
    /\ pc = "input"
    /\ IF message # None /\ isCheckedIn(message)
       THEN LET r == retrieveMessageBody(message, blobs, nextKey)
            IN  IF r.exc # ""
                THEN Unwind(r.exc, "store") /\ UNCHANGED <<message, hist>>
                ELSE /\ message' = r.msg
                     /\ hist' = Append(hist, "checkOut")
                     /\ Continue("execute")
       ELSE Continue("execute") /\ UNCHANGED <<message, hist>>
    /\ UNCHANGED <<cfg, durationSeconds, results, shutdown, cycleNo, source, deleted, blobs, nextKey, handle,
                   step, pending, current, allow, kwargsSeen, sink, signals, nextId, op>>

\* _processInput: self.coreFunction(message, self.config) raises
UserRaises ==
    /\ pc = "execute"
    /\ hist' = Append(hist, "user")
    /\ \E e \in UserExceptions : Unwind(e, "user")
    /\ UNCHANGED <<cfg, durationSeconds, results, shutdown, cycleNo, source, deleted, blobs, nextKey, message,
                   handle, step, pending, current, allow, kwargsSeen, sink, signals,
                   nextId, op>>

\* a cycle that would process the results without looking for an output
\* (variant, not the code)
UserReturnsToOutput ==
    /\ pc = "execute"
    /\ hist' = Append(hist, "user")
    /\ results' \in UserResults
    /\ IF ~IsNone(results')
       THEN pending' = AsIterable(results') /\ Continue("output")
       ELSE /\ pc' = "teardown"
            /\ log' = Append(log, LogRecord("warning", "Component did not produce any output"))
            /\ UNCHANGED <<pending, exc, propagated>>
    /\ durationSeconds' = Seconds(cycleNo)
    /\ UNCHANGED <<cfg, shutdown, cycleNo, source, deleted, blobs, nextKey, message,
                   handle, step, current, allow, kwargsSeen, sink, signals, nextId, op>>

\* a cycle that would call the user function a second time
\* (variant, not the code)
UserReturnsTwice ==
    /\ pc = "execute"
    /\ hist' = hist \o <<"user", "user">>
    /\ results' \in UserResults
    /\ IF cfg.hasOutput
       THEN IF ~IsNone(results')
            THEN pending' = AsIterable(results') /\ Continue("output")
            ELSE /\ pc' = "teardown"
                 /\ log' = Append(log, LogRecord("warning", "Component did not produce any output"))
                 /\ UNCHANGED <<pending, exc, propagated>>
       ELSE Continue("teardown") /\ UNCHANGED pending
    /\ durationSeconds' = Seconds(cycleNo)
    /\ UNCHANGED <<cfg, shutdown, cycleNo, source, deleted, blobs, nextKey, message,
                   handle, step, current, allow, kwargsSeen, sink, signals, nextId, op>>

\* _processInput returns the results; _runOnce starts _processOutput or warns
UserReturns ==
    /\ pc = "execute"
    /\ hist' = Append(hist, "user")
    /\ results' \in UserResults
    /\ IF cfg.hasOutput
       THEN IF ~IsNone(results')
            THEN pending' = AsIterable(results') /\ Continue("output")
            ELSE /\ pc' = "teardown"
                 /\ log' = Append(log, LogRecord("warning", "Component did not produce any output"))
                 /\ UNCHANGED <<pending, exc, propagated>>
       ELSE Continue("teardown") /\ UNCHANGED pending
    /\ durationSeconds' = Seconds(cycleNo)
    /\ UNCHANGED <<cfg, shutdown, cycleNo, source, deleted, blobs, nextKey, message,
                   handle, step, current, allow, kwargsSeen, sink, signals, nextId, op>>

\* a send that would stop after the first message handed over (variant, not the code)
PrepareStopsEarly ==
    /\ pc = "output"
    /\ IF pending = <<>> \/ (\E i \in DOMAIN sink : sink[i].cycle = cycleNo)
       THEN Continue("teardown") /\ UNCHANGED <<pending, current, blobs, nextKey>>
       ELSE IF IsNone(Head(pending))
       THEN /\ pending' = Tail(pending)
            /\ Continue("output")
            /\ UNCHANGED <<current, blobs, nextKey>>
       ELSE LET r == storeMessageBody(populateMessageAttributes(Head(pending).v, step),
                                      cfg, blobs, nextKey)
            IN  /\ pending' = Tail(pending)
                /\ blobs' = r.blobs
                /\ nextKey' = r.nextKey
                /\ IF r.exc # ""
                   THEN Unwind(r.exc, "store") /\ UNCHANGED current
                   ELSE current' = Msg(r.msg) /\ Continue("send")
    /\ UNCHANGED <<cfg, durationSeconds, results, shutdown, cycleNo, source, deleted, message, handle, step,
                   allow, kwargsSeen, sink, hist, signals, nextId, op>>

\* sendMessages pulls the next message out of the generators of
\* _processOutput and _sendMessages: a None is skipped, a message is stamped
\* and passed through the offload step; the exhausted iterator ends the send
Prepare ==
    /\ pc = "output"
    /\ IF pending = <<>>
       THEN Continue("teardown") /\ UNCHANGED <<pending, current, blobs, nextKey>>
       ELSE IF IsNone(Head(pending))
       THEN /\ pending' = Tail(pending)
            /\ Continue("output")
            /\ UNCHANGED <<current, blobs, nextKey>>
       ELSE LET r == storeMessageBody(populateMessageAttributes(Head(pending).v, step),
                                      cfg, blobs, nextKey)
            IN  /\ pending' = Tail(pending)
                /\ blobs' = r.blobs
                /\ nextKey' = r.nextKey
                /\ IF r.exc # ""
                   THEN Unwind(r.exc, "store") /\ UNCHANGED current
                   ELSE current' = Msg(r.msg) /\ Continue("send")
    /\ UNCHANGED <<cfg, durationSeconds, results, shutdown, cycleNo, source, deleted, message, handle, step,
                   allow, kwargsSeen, sink, hist, signals, nextId, op>>

\* MessageConsumer.sendMessages: self.sendMessage(message) returns
SendOk ==
    /\ pc = "send"
    /\ sink' = Append(sink, [cycle |-> cycleNo, msg |-> current.v])
    /\ current' = None
    /\ Continue("output")
    /\ UNCHANGED <<cfg, durationSeconds, results, shutdown, cycleNo, source, deleted, blobs, nextKey, message,
                   handle, step, pending, allow, kwargsSeen, hist, signals, nextId, op>>

\* a send that would let the Sink's MessageTooLarge through as it is
\* (variant, not the code)
SendFailsAsItIs ==
    /\ pc = "send"
    /\ \E e \in SinkExceptions : Unwind(e, "sink")
    /\ UNCHANGED <<cfg, durationSeconds, results, shutdown, cycleNo, source, deleted, blobs,
                   nextKey, message, handle, step, pending, current, allow, kwargsSeen,
                   sink, hist, signals, nextId, op>>

\* self.sendMessage(message) raises: _sendMessages catches MessageTooLarge
\* and raises a new one with its own text, any other exception passes
SendFails ==
    /\ pc = "send"
    /\ \E e \in SinkExceptions :
          IF e = "MessageTooLarge"
          THEN Raise([type |-> "MessageTooLarge", origin |-> "sink", text |-> TooLargeHint])
          ELSE Unwind(e, "sink")
    /\ UNCHANGED <<cfg, durationSeconds, results, shutdown, cycleNo, source, deleted, blobs, nextKey, message,
                   handle, step, pending, current, allow, kwargsSeen, sink, hist,
                   signals, nextId, op>>

\* a teardown that would not log the step (variant, not the code)
TeardownOkSilent ==
    /\ pc = "teardown"
    /\ step' = updateMetadata(step, [k \in {"durationSeconds"} |-> durationSeconds])
    /\ pc' = IF cfg.hasInput THEN "commit" ELSE AfterRunOnce
    /\ UNCHANGED <<cfg, durationSeconds, results, shutdown, cycleNo, source, deleted, blobs, nextKey, message,
                   handle, pending, current, exc, allow, kwargsSeen, propagated, sink,
                   log, hist, signals, nextId, op>>

\* a teardown that would log the step twice (variant, not the code)
TeardownOkTwice ==
    /\ pc = "teardown"
    /\ step' = updateMetadata(step, [k \in {"durationSeconds"} |-> durationSeconds])
    /\ log' = log \o <<StepRecord(step'), StepRecord(step')>>
    /\ pc' = IF cfg.hasInput THEN "commit" ELSE AfterRunOnce
    /\ UNCHANGED <<cfg, durationSeconds, results, shutdown, cycleNo, source, deleted, blobs,
                   nextKey, message, handle, pending, current, exc, allow, kwargsSeen,
                   propagated, sink, hist, signals, nextId, op>>

\* _runOnce: the duration is added to the step and the step is logged
TeardownOk ==
    /\ pc = "teardown"
    /\ step' = updateMetadata(step, [k \in {"durationSeconds"} |-> durationSeconds])
    /\ log' = Append(log, StepRecord(step'))
    /\ pc' = IF cfg.hasInput THEN "commit" ELSE AfterRunOnce
    /\ UNCHANGED <<cfg, durationSeconds, results, shutdown, cycleNo, source, deleted, blobs, nextKey, message,
                   handle, pending, current, exc, allow, kwargsSeen, propagated, sink,
                   hist, signals, nextId, op>>

\* a failing teardown after which the Source would still commit, as with a
\* try/finally around the yield (variant, not the code)
TeardownFailsCommits ==
    /\ pc = "teardown"
    /\ exc' = [type |-> "Exception", origin |-> "runtime"]
    /\ log' = Append(log, LogRecord("exception", "Exception"))
    /\ pc' = IF cfg.hasInput THEN "commit" ELSE AfterRunOnce
    /\ UNCHANGED <<cfg, durationSeconds, results, shutdown, cycleNo, source, deleted, blobs, nextKey, message,
                   handle, step, pending, current, allow, kwargsSeen, propagated, sink,
                   hist, signals, nextId, op>>

\* the logging calls that end _runOnce raise
TeardownFails ==
    /\ pc = "teardown"
    /\ Unwind("Exception", "runtime")
    /\ UNCHANGED <<cfg, durationSeconds, results, shutdown, cycleNo, source, deleted, blobs, nextKey, message,
                   handle, step, pending, current, allow, kwargsSeen, sink, hist,
                   signals, nextId, op>>

\* the with-block is left normally: the Source's code after its yield runs
\* (os.remove(filepath), raw_message.delete(), self.deleted.append(rawMessage))
\* a Source that would commit while the outputs are being sent
\* (variant, not the code)
CommitBeforeSends ==
    /\ pc \in {"commit", "send"}
    /\ handle # None
    /\ handle \notin {deleted[i] : i \in DOMAIN deleted}
    /\ source' = SelectSeq(source, LAMBDA e : e.id # handle.id)
    /\ deleted' = Append(deleted, handle)
    /\ pc' = IF pc = "send" THEN "send" ELSE AfterRunOnce
    /\ UNCHANGED <<cfg, durationSeconds, results, shutdown, cycleNo, blobs, nextKey, message,
                   handle, step, pending, current, allow, kwargsSeen, sink, hist, signals,
                   nextId, op, exc, log, propagated>>

\* the Source's context manager resumes after its yield: os.remove of the
\* file, delete of the queue entry, append to deleted of the pseudo-queue
Commit ==
    /\ pc = "commit"
    /\ source' = SelectSeq(source, LAMBDA e : e.id # handle.id)
    /\ deleted' = Append(deleted, handle)
    /\ Continue(AfterRunOnce)
    /\ UNCHANGED <<cfg, durationSeconds, results, shutdown, cycleNo, blobs, nextKey, message, handle, step,
                   pending, current, allow, kwargsSeen, sink, hist, signals, nextId, op>>

\* GracefulLooper.runForever: time.sleep(self.sleep)
Sleep ==
    /\ pc = "sleep"
    /\ Continue("loop")
    /\ UNCHANGED <<cfg, durationSeconds, results, shutdown, cycleNo, source, deleted, blobs, nextKey, message,
                   handle, step, pending, current, allow, kwargsSeen, sink, hist,
                   signals, nextId, op>>

\* between two calls of runOnce, or inside one
Phase == IF pc \in {"loop", "sleep"} THEN "between" ELSE "cycle"

\* a signal that would end the loop at once (variant, not the code)
SignalInterrupts ==
    /\ cfg.driver = "runForever"
    /\ pc \notin {"returned", "raised", "store"}
    /\ Len(signals) < MaxSignals
    /\ shutdown' = TRUE
    /\ signals' = Append(signals, <<cycleNo, Phase>>)
    /\ log' = Append(log, LogRecord("warning", "Signal received, waiting for loop..."))
    /\ pc' = "returned"
    /\ UNCHANGED <<cfg, durationSeconds, results, cycleNo, source, deleted, blobs, nextKey, message, handle,
                   step, pending, current, exc, allow, kwargsSeen, propagated, sink,
                   hist, nextId, op>>

\* GracefulLooper.registerSignal, run by the interpreter between two steps
Signal ==
    /\ cfg.driver = "runForever"
    /\ pc \notin {"returned", "raised", "store"}
    /\ Len(signals) < MaxSignals
    /\ shutdown' = TRUE
    /\ signals' = Append(signals, <<cycleNo, Phase>>)
    /\ log' = Append(log, LogRecord("warning", "Signal received, waiting for loop..."))
    /\ UNCHANGED <<cfg, durationSeconds, results, pc, cycleNo, source, deleted, blobs, nextKey, message, handle,
                   step, pending, current, exc, allow, kwargsSeen, propagated, sink,
                   hist, nextId, op>>

Next ==
    \/ LoopCheck
    \/ LambdaLoop
    \/ FetchFolder
    \/ FetchQueue
    \/ FetchPseudo
    \/ FetchFails
    \/ Lineage
    \/ Retrieve
    \/ UserRaises
    \/ UserReturns
    \/ Prepare
    \/ SendOk
    \/ SendFails
    \/ TeardownOk
    \/ TeardownFails
    \/ Commit
    \/ Sleep
    \/ Signal

Spec == Init /\ [][Next]_vars

----------------------------------------------------------------------------
(* utils/__init__.py: runForever when every runOnce call and every sleep   *)
(* terminates                                                              *)

\* a component driven by runForever, without a payload store, on a Source
\* that holds at most one message
InitLoop ==
    /\ Init
    /\ cfg.driver = "runForever"
    /\ cfg.PYLON_STORE_DESTINATION = None
    /\ Len(source) <= 1

\* the steps of the loop, of the cycle and of the sleep
LoopSteps ==
    \/ LoopCheck
    \/ FetchFolder
    \/ FetchQueue
    \/ FetchFails
    \/ Lineage
    \/ Retrieve
    \/ UserRaises
    \/ UserReturns
    \/ Prepare
    \/ SendOk
    \/ SendFails
    \/ TeardownOk
    \/ TeardownFails
    \/ Commit
    \/ Sleep

NextLoop ==
    \/ LoopSteps
    \/ Signal

\* a step of the loop that can be taken is taken; signals arrive or not
SpecLoop == InitLoop /\ [][NextLoop]_vars /\ WF_vars(LoopSteps)

----------------------------------------------------------------------------
(* Claims about the payload store protocol *)

\* the offload step ran on a message that was not checked in, and did not
\* fail on an unsupported store scheme
OffloadDecided ==
    /\ op.last = "offload"
    /\ ~isCheckedIn(op.arg)
    /\ op.exc # "NotImplementedError"

\* the offload step called the store's checkIn
StoreCalled == nextKey = op.k0 + 1

----------------------------------------------------------------------------
(* Claims about the cycle of runOnce *)

Range(s) == {s[i] : i \in DOMAIN s}

\* runOnce has returned to its caller, or has raised towards it
CycleOver == cycleNo > 0 /\ pc \in {"sleep", "loop", "returned", "raised"}

\* the cycle obtained a message from the Source
Fetched == cfg.hasInput /\ handle # None

\* the Source ran its commit step for the message of the cycle
Acked == handle \in Range(deleted)

\* the entry of the cycle's message is still at the Source
AtSource == handle \in Range(source)

\* the messages of this cycle the Sink received
SentInCycle == {i \in DOMAIN sink : sink[i].cycle = cycleNo}

\* log records of this cycle
ExceptionLogged == \E i \in DOMAIN log : log[i].cycle = cycleNo /\ log[i].level = "exception"
LineageLogged ==
    \E i \in DOMAIN log : log[i].cycle = cycleNo /\ log[i].text = "INGESTION_STEP"

C3_NoPropagation ==
    ~allow =>
        /\ propagated = NoExc
        /\ pc # "raised"
        /\ (cfg.driver = "runForever" /\ exc # NoExc) =>
              \/ pc \in {"sleep", "loop"}
              \/ pc = "returned" /\ shutdown

\* C3 witness: the first cycle logged an exception and the second one runs
C3_Witness ==
    /\ cfg.driver = "runForever"
    /\ cycleNo = 2
    /\ pc = "execute"
    /\ ~shutdown
    /\ \E i \in DOMAIN log : log[i].cycle = 1 /\ log[i].level = "exception"

\* C4: a signal sets the flag and nothing else, whenever it arrives; the
\* cycle it arrives in is the last one started, and when that cycle did not
\* fail by itself the loop returns with its outputs consumed, its input
\* acknowledged and its lineage record logged.
C4_SignalLetsCycleFinish ==
    /\ [](signals # <<>> =>
            /\ shutdown
            /\ cycleNo = signals[1][1]
            /\ (pc = "returned" /\ signals[1][2] = "cycle" /\ exc = NoExc) =>
                  /\ pending = <<>>
                  /\ current = None
                  /\ LineageLogged
                  /\ Fetched => Acked)
    /\ [][signals' # signals =>
            UNCHANGED <<pc, cycleNo, source, deleted, blobs, message, handle, step,
                        pending, current, exc, sink, hist>>]_vars
    /\ [][cycleNo' # cycleNo => ~shutdown]_vars

\* C4 witness: the signal arrived inside the first cycle, which then sent its
\* output and acknowledged its input before the loop returned
C4_Witness ==
    /\ pc = "returned"
    /\ signals = <<<<1, "cycle">>>>
    /\ exc = NoExc
    /\ SentInCycle # {}
    /\ Acked

\* the Source of the cycle signalled that it holds no message
NoMessagesSignalled ==
    /\ exc.origin = "source"
    /\ exc.type \in {"NoMessagesAvailable", "sqs.NoMessagesAvailable"}

\* C5 as stated: when the Source signals that it holds no message, whichever
\* adapter it is, the cycle ends at once and silently: no step is created,
\* the user function is not called, nothing is sent, nothing is logged as an
\* exception and nothing is raised.
C5_NoMessagesIsSilent ==
    NoMessagesSignalled =>
        /\ CycleOver
        /\ step = None
        /\ hist = <<>>
        /\ SentInCycle = {}
        /\ ~ExceptionLogged
        /\ propagated = NoExc

\* C5 on the folder source, whose signal is the class runOnce catches
C5_FolderNoMessagesIsSilent ==
    (NoMessagesSignalled /\ cfg.input = "folder") =>
        /\ CycleOver
        /\ step = None
        /\ hist = <<>>
        /\ SentInCycle = {}
        /\ ~ExceptionLogged
        /\ propagated = NoExc

\* C6 as stated: with the flag, every exception raised inside the cycle
\* reaches the caller of runOnce unchanged, and runOnce itself does not
\* receive the flag.
C6_FlagPropagatesAll ==
    /\ "PYLON_ALLOW_EXCEPTIONS" \notin kwargsSeen
    /\ (allow /\ exc # NoExc) => (pc = "raised" /\ propagated = exc)

\* C6 for the exceptions other than NoMessagesAvailable
C6_FlagPropagatesOthers ==
    /\ "PYLON_ALLOW_EXCEPTIONS" \notin kwargsSeen
    /\ (allow /\ exc # NoExc /\ ~(cfg.hasInput /\ exc.type = "NoMessagesAvailable")) =>
          (pc = "raised" /\ propagated = exc)

\* C7 as stated: without the flag, every exception raised inside the cycle
\* body (by the user function, the codec, the store or an adapter) is logged
\* before the cycle ends.
C7_EveryExceptionLogged ==
    (~allow /\ CycleOver /\ exc # NoExc /\ exc.origin # "source") =>
        \E i \in DOMAIN log :
            log[i] = LogRecord("exception", exc.type)

\* C7 for the exceptions other than NoMessagesAvailable
C7_OtherExceptionsLogged ==
    (~allow /\ CycleOver /\ exc # NoExc /\ exc.origin # "source"
        /\ ~(cfg.hasInput /\ exc.type = "NoMessagesAvailable")) =>
        \E i \in DOMAIN log :
            log[i] = LogRecord("exception", exc.type)

\* C8: cycles do not overlap.  The Sink receives the messages of the cycles
\* in the order of the cycles; when the Source is asked for the input of a
\* cycle, every message the Sink holds is of an earlier cycle and no output
\* is waiting to be prepared or sent; a cycle that completed has consumed its
\* whole result.
C8_CyclesDoNotOverlap ==
    /\ \A i \in DOMAIN sink :
          /\ sink[i].cycle <= cycleNo
          /\ i > 1 => sink[i - 1].cycle <= sink[i].cycle
    /\ pc = "fetch" =>
          /\ \A i \in DOMAIN sink : sink[i].cycle < cycleNo
          /\ pending = <<>>
          /\ current = None
    /\ (CycleOver /\ exc = NoExc) => (pending = <<>> /\ current = None)

\* C8 witness: the first cycle sent two messages before the second fetch
C8_Witness ==
    /\ pc = "fetch"
    /\ cycleNo = 2
    /\ Cardinality({i \in DOMAIN sink : sink[i].cycle = 1}) = 2

----------------------------------------------------------------------------
(* Payload store: check-in followed by check-out *)

\* every field but body and payloadStoreKey is equal
SameEnvelope(a, b) ==
    /\ a.payloadMimeType = b.payloadMimeType
    /\ a.objectType = b.objectType
    /\ a.customAttributes = b.customAttributes
    /\ a.ingestionId = b.ingestionId
    /\ a.artifactName = b.artifactName
    /\ a.artifactVersion = b.artifactVersion

\* a check-out was applied to what the check-in before it was given as arg0
CheckedInThenOut == op.last = "checkOut" /\ op.prev = "checkIn"

\* the check-out returned the message the check-in was given, not checked in
RoundTripRestored ==
    /\ op.exc = ""
    /\ op.msg.body = op.arg0.body
    /\ IsNone(op.msg.payloadStoreKey)
    /\ SameEnvelope(op.msg, op.arg0)

\* C11: for a message of every body variant, check-out of its check-in
\* returns a message with the original body, no payloadStoreKey and every
\* other field as in the original.
C11_RoundTripEveryVariant == CheckedInThenOut => RoundTripRestored

\* the body is what the class of the message can hand to the store: text, or
\* an object the class serializes
Storable(m) ==
    IF m.cls \in {"DataAssetMessage", "IngestionMessage"}
    THEN m.body.t = "obj"
    ELSE m.body.t = "str"

\* the round trip of the messages whose body can be handed to the store
C11_RoundTripOfStorable ==
    (CheckedInThenOut /\ Storable(op.arg0)) => RoundTripRestored

C11_Witness ==
    /\ CheckedInThenOut
    /\ RoundTripRestored
    /\ op.arg0.body.t = "obj"

\* the text a check-in writes for a body: the body, or the JSON of an object
SerializedBody(m) == IF m.body.t = "obj" THEN toJSON(m.body) ELSE m.body

\* C12: check-in and check-out leave the message the caller passed as it
\* was, whether they return or raise; a check-in that returns gives a copy
\* whose body and payloadStoreKey are the new key, under which the store
\* holds the serialized body, the other fields being those of the original.
C12_CallerKeepsItsMessage ==
    /\ op.last \in {"checkIn", "checkOut"} => op.caller = op.arg
    /\ (op.last = "checkIn" /\ op.exc = "") =>
          LET key == getPath("s3://store", op.k0)
          IN  /\ op.msg.body = Str(key)
              /\ op.msg.payloadStoreKey = Str(key)
              /\ SameEnvelope(op.msg, op.arg)
              /\ key \in DOMAIN blobs
              /\ Decoded(blobs[key]) = SerializedBody(op.arg)

\* C12 witness: a check-in and the check-out of its result were applied, the
\* object given to the check-out is still checked in, the result is not
C12_Witness ==
    /\ CheckedInThenOut
    /\ op.exc = ""
    /\ op.caller = op.arg
    /\ isCheckedIn(op.caller)
    /\ ~isCheckedIn(op.msg)
    /\ op.msg.body # op.caller.body

----------------------------------------------------------------------------
(* Payload store: keys *)

\* this step is a check-in that returned, called directly or by the offload step
CheckInReturned ==
    /\ op'.exc = ""
    /\ \/ op'.last = "checkIn"
       \/ op'.last = "offload" /\ ~isCheckedIn(op.msg) /\ isCheckedIn(op'.msg)

\* C13: the key a check-in returns is beneath the prefix of the store and is
\* not the key of any blob written before, and the check-in leaves every
\* blob written before as it was.  uuid4 is taken to return a new value at
\* each call.
C13_KeysAreFresh ==
    [][CheckInReturned =>
          LET key == op'.msg.payloadStoreKey.v
          IN  /\ \E n \in 0..MaxOps : key = "s3://store" \o "/" \o uuid(n)
              /\ key \notin DOMAIN blobs
              /\ key \in DOMAIN blobs'
              /\ \A x \in DOMAIN blobs : blobs'[x] = blobs[x]]_vars

\* C13 witness: two check-ins in a row returned, the store holds two blobs
C13_Witness ==
    /\ op.last = "checkIn"
    /\ op.prev = "checkIn"
    /\ op.exc = ""
    /\ Cardinality(DOMAIN blobs) = 2

----------------------------------------------------------------------------
(* The offload step on a message that is already checked in *)

\* C14: the offload step given a checked-in message returns that message
\* unchanged without raising, generates no key and leaves the blob store as
\* it was, whatever the destination, the threshold and the size.
C14_OffloadSkipsCheckedIn ==
    [][(op'.last = "offload" /\ op'.n = op.n + 1 /\ isCheckedIn(op.msg)) =>
          /\ op'.exc = ""
          /\ op'.msg = op.msg
          /\ op'.caller = op.msg
          /\ nextKey' = nextKey
          /\ blobs' = blobs]_vars

\* C14 witness: a checked-in message went through the offload step of a
\* component that offloads every message
C14_Witness ==
    /\ op.last = "offload"
    /\ isCheckedIn(op.arg)
    /\ cfg.PYLON_STORE_DESTINATION = Str("s3://store")
    /\ cfg.PYLON_STORE_MIN_MESSAGE_BYTES = PyInt(0)
    /\ op.msg = op.arg
    /\ nextKey = op.k0

----------------------------------------------------------------------------
(* The input of the user function *)

\* the message the Source yielded for the entry the cycle holds
Yielded ==
    IF cfg.input = "folder" THEN folderDecode(handle.raw).msg
    ELSE IF cfg.input = "sqs"
    THEN decode_message(handle.raw.body, stringValues(handle.raw.attributes)).msg
    ELSE decodeMessage(handle.raw.body, handle.raw.attributes).msg

\* the user function was invoked in the running cycle
UserInvoked == \E i \in DOMAIN hist : hist[i] = "user"

\* the body is what the store holds for the checked-in message m: the text,
\* or for a data asset the DataAsset object that text denotes
Rehydrated(body, m) ==
    LET text == Decoded(blobs[m.payloadStoreKey.v])
    IN  IF m.objectType = Str(OT_DATA_ASSET)
        THEN body.t = "obj" /\ body.cls = "DataAsset" /\ toJSON(body) = text
        ELSE body = text

\* C15: the user function is never given a checked-in message.  When the
\* input the Source yielded is checked in, it was checked out exactly once,
\* before the user function was invoked, and the message given to the user
\* function has no payloadStoreKey and the stored content as its body (the
\* rebuilt object for a data asset), its other fields being the input's.
C15_UserGetsCheckedOutInput ==
    /\ (pc = "execute" /\ message # None) => ~isCheckedIn(message)
    /\ (UserInvoked /\ Fetched) =>
          /\ ~isCheckedIn(message)
          /\ SameEnvelope(message, Yielded)
          /\ IF isCheckedIn(Yielded)
             THEN /\ hist = <<"checkOut", "user">>
                  /\ Rehydrated(message.body, Yielded)
             ELSE /\ hist = <<"user">>
                  /\ message = Yielded

\* C15 witness: the user function was invoked with the data asset rebuilt
\* from the blob of a checked-in input
C15_Witness ==
    /\ UserInvoked
    /\ Fetched
    /\ isCheckedIn(Yielded)
    /\ hist = <<"checkOut", "user">>
    /\ message.body = Obj("DataAsset", Str("old"), <<Str("old")>>)
    /\ IsNone(message.payloadStoreKey)

----------------------------------------------------------------------------
(* Check-out of a message that is not checked in *)

\* C16: a check-out of a message that is not checked in, by the store's
\* checkOutPayload or by the runtime's _retrieveMessageBody, raises and
\* returns no message; the blob store and the caller's message stay as they
\* were and no key is generated.
C16_CheckOutNeedsCheckedIn ==
    [][(op'.last \in {"checkOut", "retrieve"} /\ op'.n = op.n + 1
            /\ ~isCheckedIn(op.msg)) =>
          /\ op'.exc # ""
          /\ op'.msg = op.msg
          /\ op'.caller = op.msg
          /\ blobs' = blobs
          /\ nextKey' = nextKey]_vars

\* C16 witness: _retrieveMessageBody raised ValueError for a message that
\* was checked out before, the blob of its check-in still in the store
C16_Witness ==
    /\ op.last = "retrieve"
    /\ op.prev = "checkOut"
    /\ ~isCheckedIn(op.arg)
    /\ op.exc = "ValueError"
    /\ op.msg = op.arg
    /\ Cardinality(DOMAIN blobs) = 1

----------------------------------------------------------------------------
(* The envelope codec: encode followed by decode *)

\* what a codec encoded was decoded by the same codec
EncodedThenDecoded ==
    /\ op.last = "decode"
    /\ op.prev = "encode"
    /\ op.codec = (IF op.wire.codec = "aws" THEN "decodeMessage" ELSE "decode_message")

\* C17: for every message, whatever its body variant, its lineage and
\* artifact fields and its custom attributes, decoding its encoding returns
\* a message equal to it.
C17_RoundTripIdentity ==
    EncodedThenDecoded => (op.exc = "" /\ MessageEq(op.msg, op.arg))

\* the body is not empty and is what the objectType says
BodySurvivesTheWire(m) ==
    /\ Truthy(m.body)
    /\ m.body.t \in {"str", "obj"}
    /\ m.body.t = "obj" =>
          /\ ~isCheckedIn(m)
          /\ m.objectType = (IF m.body.cls = "DataAsset" THEN Str(OT_DATA_ASSET)
                              ELSE Str(OT_INGESTION_STEP))
    /\ m.body.t = "str" =>
          (isCheckedIn(m) \/ m.objectType \notin {Str(OT_DATA_ASSET), Str(OT_INGESTION_STEP)})

\* no custom attribute takes the name of an attribute of the envelope
CustomNamesApart(m) ==
    DOMAIN m.customAttributes \cap (FixedNames \cup {"payloadStoreKey"}) = {}

\* no field holds the text 'None', and the two type fields are set
NoneIsNotText(m) ==
    /\ m.payloadMimeType.t = "str"
    /\ m.objectType.t = "str"
    /\ \A f \in {"ingestionId", "artifactName", "artifactVersion", "payloadStoreKey",
                  "payloadMimeType", "objectType"} : m[f] # Str("None")

\* the round trip of the messages with a body that survives the wire, custom
\* attributes of their own names and no field holding the text 'None'
C17_RoundTripOfNonEmpty ==
    (EncodedThenDecoded /\ BodySurvivesTheWire(op.arg) /\ CustomNamesApart(op.arg)
        /\ NoneIsNotText(op.arg)) =>
        (op.exc = "" /\ MessageEq(op.msg, op.arg))

----------------------------------------------------------------------------
(* Lineage of the outputs *)

\* a DataAsset whose id and rows all carry this ingestionId
AssetsStamped(id) == {Obj("DataAsset", id, [i \in 1..n |-> id]) : n \in 0..MaxRows}

\* the DataAsset of the message, in its body or in its blob when the message
\* is checked in, carries this ingestionId in itself and in every row
AssetStamped(m, id) ==
    IF isCheckedIn(m)
    THEN \E o \in AssetsStamped(id) : Decoded(blobs[m.payloadStoreKey.v]) = toJSON(o)
    ELSE m.body \in AssetsStamped(id)

\* the message carries the lineage of the step
StampedBy(m, st) ==
    /\ m.ingestionId = st.ingestionId
    /\ m.artifactName = st.artifactName
    /\ m.artifactVersion = st.artifactVersion
    /\ m.objectType = Str(OT_DATA_ASSET) => AssetStamped(m, st.ingestionId)

\* C18: every message the Sink received in the running cycle carries the
\* ingestionId, artifactName and artifactVersion of the cycle's
\* IngestionStep, whatever the user function had set, and a data asset
\* carries the id in its body and in every row; two messages at the Sink
\* have the same ingestionId exactly when they are of the same cycle.
C18_OutputsCarryTheStep ==
    /\ \A i \in SentInCycle : step # None /\ StampedBy(sink[i].msg, step)
    /\ \A i, j \in DOMAIN sink :
          (sink[i].cycle = sink[j].cycle) <=>
              (sink[i].msg.ingestionId = sink[j].msg.ingestionId)

\* C18 witness: the Sink holds a data asset of the first cycle and a message
\* of the second
C18_Witness ==
    /\ cycleNo = 2
    /\ SentInCycle # {}
    /\ \E i \in DOMAIN sink :
          /\ sink[i].cycle = 1
          /\ sink[i].msg.objectType = Str(OT_DATA_ASSET)
          /\ ~isCheckedIn(sink[i].msg)
          /\ sink[i].msg.body.rows = <<sink[i].msg.ingestionId>>

----------------------------------------------------------------------------
(* The IngestionStep of a cycle *)

\* C19: the IngestionStep of the running cycle has as parentIngestionId the
\* ingestionId of the message the Source yielded in this cycle, checked in
\* or not, and None when the component has no input.
C19_ParentIsTheInput ==
    step # None =>
        IF cfg.hasInput
        THEN Fetched /\ step.parentIngestionId = Yielded.ingestionId
        ELSE step.parentIngestionId = None

\* C19 witness: the second cycle's step names its checked-in input as parent
\* after a first cycle that consumed an input with another ingestionId
C19_Witness ==
    /\ cfg.input = "folder"
    /\ cycleNo = 2
    /\ step # None
    /\ Fetched
    /\ isCheckedIn(Yielded)
    /\ step.parentIngestionId = Str("parent-a")
    /\ \E i \in DOMAIN deleted :
          folderDecode(deleted[i].raw).msg.ingestionId = Str("parent")

\* the INGESTION_STEP records of cycle c
StepRecordsOf(c) ==
    {i \in DOMAIN log : log[i].cycle = c /\ log[i].text = "INGESTION_STEP"}

\* the cycle is past _getIngestionStep
PastLineage ==
    \/ pc \in {"input", "execute", "output", "send", "teardown", "commit"}
    \/ CycleOver /\ exc = NoExc /\ (Fetched \/ ~cfg.hasInput)

\* what holds of the steps and their records in every state
StepsAndRecords ==
    /\ nextId <= cycleNo
    /\ PastLineage => step # None
    /\ step # None => step.ingestionId = Str(uuid1(nextId - 1))
    /\ \A c \in 0..MaxCycles : Cardinality(StepRecordsOf(c)) <= 1
    /\ LineageLogged =>
          /\ pending = <<>>
          /\ current = None
          /\ pc \notin {"fetch", "lineage", "input", "execute", "output", "send", "teardown"}
    /\ (CycleOver /\ exc = NoExc /\ step # None) =>
          /\ Cardinality(StepRecordsOf(cycleNo)) = 1
          /\ \A i \in StepRecordsOf(cycleNo) :
                /\ log[i].step = stepToJSON(step)
                /\ "durationSeconds" \in DOMAIN log[i].step.fields.metadata
                /\ log[i].step.fields.metadata["durationSeconds"] = Seconds(cycleNo)

\* C20: a cycle that obtained its input (or has none declared) creates
\* exactly one IngestionStep; when the cycle completes the step is logged as
\* exactly one INGESTION_STEP record, after the output was sent, with the
\* durationSeconds the timed wrapper measured for the user function's call
\* of that cycle in its metadata; no cycle logs more than one such record.
C20_OneStepOneRecord ==
    /\ []StepsAndRecords
    /\ [][nextId' # nextId =>
            /\ nextId' = nextId + 1
            /\ step = None
            /\ step' # None]_vars
    /\ [][sink' # sink => (~LineageLogged /\ ~LineageLogged')]_vars

\* C20 witness: two cycles completed, each with its own step, its own
\* record and its own duration, the second after sending an output
C20_Witness ==
    /\ cycleNo = 2
    /\ CycleOver
    /\ exc = NoExc
    /\ nextId = 2
    /\ SentInCycle # {}
    /\ Cardinality(StepRecordsOf(1)) = 1
    /\ Cardinality(StepRecordsOf(2)) = 1
    /\ \A i \in StepRecordsOf(1) :
          log[i].step.fields.metadata["durationSeconds"] = Seconds(1)
    /\ \A i \in StepRecordsOf(2) :
          /\ log[i].step.fields.ingestionId = Str(uuid1(1))
          /\ log[i].step.fields.metadata["durationSeconds"] = Seconds(2)

\* C21: over any sequence of populate and updateMetadata calls on a step,
\* and over the teardown of a cycle, every key of the step's metadata stays
\* in the metadata: keys are merged in and never removed.
C21_MetadataKeysStay ==
    [][(step # None /\ step' # None) =>
          DOMAIN step.metadata \subseteq DOMAIN step'.metadata]_vars

\* C21 witness: a populate after an updateMetadata on a step that holds all
\* three keys, with INGESTION_ATTRS that name only one of them
C21_Witness ==
    /\ pc = "step"
    /\ op.last = "populate"
    /\ op.prev = "updateMetadata"
    /\ "INGESTION_ATTRS" \in DOMAIN cfg
    /\ DOMAIN cfg.INGESTION_ATTRS = {"source"}
    /\ DOMAIN step.metadata = MetadataKeys
    /\ step.metadata["rows"] = "2"

----------------------------------------------------------------------------
(* The result of the user function and what the Sink receives *)

\* the user function returned, and returned nothing but None values
OnlyNones ==
    /\ results # Unset
    /\ \/ IsNone(results)
       \/ /\ results.t \in {"list", "gen"}
          /\ \A i \in DOMAIN results.v : IsNone(results.v[i])

\* logging.warning('Component did not produce any output') of this cycle
NoOutputWarned ==
    \E i \in DOMAIN log :
        /\ log[i].cycle = cycleNo
        /\ log[i].level = "warning"
        /\ log[i].text = "Component did not produce any output"

\* C22: in a component with an output, when the user function returned only
\* None values (a bare None or a sequence of Nones) nothing is sent to the
\* Sink in that cycle and, once the cycle completed, a warning was logged.
C22_OnlyNonesWarn ==
    (cfg.hasOutput /\ OnlyNones) =>
        /\ SentInCycle = {}
        /\ (CycleOver /\ exc = NoExc) => NoOutputWarned

\* what holds instead: nothing is sent, and the warning is logged for a
\* bare None, at once, and for no sequence
C22_BareNoneWarns ==
    (cfg.hasOutput /\ OnlyNones) =>
        /\ SentInCycle = {}
        /\ NoOutputWarned <=> IsNone(results)

\* the messages the Sink received in the running cycle, in order
SentSeq ==
    LET mine == SelectSeq(sink, LAMBDA e : e.cycle = cycleNo)
    IN  [i \in DOMAIN mine |-> mine[i].msg]

\* the entries of the user function's result that are not None, in order
NonNoneResults ==
    IF results.t = "msg" THEN <<results>>
    ELSE IF results.t = "none" THEN <<>>
    ELSE SelectSeq(results.v, LAMBDA x : ~IsNone(x))

\* the message sent is the entry of the result, stamped by the step and
\* either as it was or checked in with its serialized body in the store
SentFor(sent, item) ==
    LET stamped == populateMessageAttributes(item.v, step)
    IN  /\ sent.cls = stamped.cls
        /\ SameEnvelope(sent, stamped)
        /\ IF isCheckedIn(sent)
           THEN /\ sent.body = sent.payloadStoreKey
                /\ Decoded(blobs[sent.payloadStoreKey.v]) = SerializedBody(stamped)
           ELSE sent.body = stamped.body

\* C23: what the Sink received in the running cycle is, entry by entry and
\* in order, the non-None entries of the user function's result (a single
\* message counting as a sequence of one, a generator as the list of what it
\* yields), each once: a prefix of them while the cycle runs or when it
\* failed, all of them when the cycle completed.
C23_SentIsTheResult ==
    IF cfg.hasOutput /\ results # Unset
    THEN /\ Len(SentSeq) <= Len(NonNoneResults)
         /\ \A i \in DOMAIN SentSeq : SentFor(SentSeq[i], NonNoneResults[i])
         /\ (CycleOver /\ exc = NoExc) => Len(SentSeq) = Len(NonNoneResults)
    ELSE SentSeq = <<>>

\* C23 witness: a completed cycle whose user function returned a generator
\* of two messages, the second one checked in on its way, after a cycle
\* that had sent one message
C23_Witness ==
    /\ cycleNo = 2
    /\ CycleOver
    /\ exc = NoExc
    /\ results = Gen(<<Msg(OutSmall), Msg(OutBig)>>)
    /\ Len(SentSeq) = 2
    /\ ~isCheckedIn(SentSeq[1])
    /\ isCheckedIn(SentSeq[2])
    /\ Len(sink) = 3

----------------------------------------------------------------------------
(* How often a cycle fetches and calls the user function *)

\* calls of the user function in the running cycle
UserCalls == Cardinality({i \in DOMAIN hist : hist[i] = "user"})

\* a checked-in input was obtained and its check-out raised
CheckOutFailed ==
    /\ Fetched
    /\ isCheckedIn(Yielded)
    /\ exc # NoExc
    /\ exc.origin = "store"
    /\ UserCalls = 0

\* a cycle takes at most one entry from its Source
OneFetch ==
    /\ [][handle' # handle => (handle' = None \/ (handle = None /\ pc = "fetch"))]_vars
    /\ [][Len(source') < Len(source) => Len(source') = Len(source) - 1]_vars
    /\ [][(Len(source') < Len(source) /\ cfg.input = "pseudo") =>
            (pc = "fetch" /\ handle = None)]_vars

\* C24 as stated: a runOnce call fetches at most one message and calls the
\* user function exactly once when a message was obtained or no input is
\* declared, never when the Source gave no message, and never twice.
C24_UserOncePerMessage ==
    /\ OneFetch
    /\ [](UserCalls <= 1)
    /\ [](CycleOver =>
            UserCalls = (IF Fetched \/ ~cfg.hasInput THEN 1 ELSE 0))

\* C24 amended: as above, except that a checked-in input whose check-out
\* raises ends the cycle before the user function is called.
C24_UserOnceUnlessCheckOutFails ==
    /\ OneFetch
    /\ [](UserCalls <= 1)
    /\ [](CycleOver =>
            IF Fetched \/ ~cfg.hasInput
            THEN UserCalls = 1 \/ CheckOutFailed
            ELSE UserCalls = 0)

\* C24 witness: the second cycle is over, it fetched a checked-in message,
\* checked it out and called the user function once, the first cycle having
\* ended on a check-out that raised
C24_Witness ==
    /\ cycleNo = 2
    /\ CycleOver
    /\ Fetched
    /\ hist = <<"checkOut", "user">>
    /\ \E i \in DOMAIN log :
          /\ log[i].cycle = 1
          /\ log[i].level = "exception"
          /\ log[i].text = "NotImplementedError"

\* C25: a component without an output never sends to a Sink and never
\* stores a payload, whatever the user function returns, and logs no
\* warning about missing output; its completed cycle has logged the lineage
\* record and, with an input, acknowledged the message.
C25_NoOutputNoSend ==
    ~cfg.hasOutput =>
        /\ sink = <<>>
        /\ current = None
        /\ pending = <<>>
        /\ blobs = InitialBlobs
        /\ nextKey = 0
        /\ ~NoOutputWarned
        /\ (CycleOver /\ exc = NoExc /\ (Fetched \/ ~cfg.hasInput)) =>
              /\ UserCalls = 1
              /\ LineageLogged
              /\ Fetched => (Acked /\ ~AtSource)

\* C25 witness: a sink component whose store options would offload the data
\* asset its user function returned has completed a cycle: the input is
\* acknowledged, the lineage record logged, nothing sent or stored
C25_Witness ==
    /\ ~cfg.hasOutput
    /\ cfg.hasInput
    /\ cfg.PYLON_STORE_DESTINATION = Str("s3://store")
    /\ CycleOver
    /\ exc = NoExc
    /\ results = List(<<Msg(OutBig), Msg(OutSmall)>>)
    /\ Acked
    /\ LineageLogged
    /\ sink = <<>>

----------------------------------------------------------------------------
(* The construction of a component *)

\* the adapter a URI asks for as input, None for a scheme that is no input
InputAdapterFor(uri) ==
    IF uri = Str("sqs://q") THEN [cls |-> "QueueMessageProducerConsumer", arg |-> "q"]
    ELSE IF uri = Str("folder://dir")
    THEN [cls |-> "FolderMessageProducerConsumer", arg |-> "dir"]
    ELSE None

\* the adapter a URI asks for as output
OutputAdapterFor(uri) ==
    IF uri = Str("sns://topic") THEN [cls |-> "TopicMessageConsumer", arg |-> "topic"]
    ELSE InputAdapterFor(uri)

NeedsInput == cfg.kind \in {"PipelineComponent", "SinkComponent"}
NeedsOutput == cfg.kind \in {"PipelineComponent", "SourceComponent"}

\* a URI the component needs is missing or has a scheme that is not recognized
BadScheme ==
    \/ NeedsInput /\ InputAdapterFor(cfg.PYLON_INPUT) = None
    \/ NeedsOutput /\ OutputAdapterFor(cfg.PYLON_OUTPUT) = None

\* the constructor raised and no cycle ran
FailedAtConstruction == pc = "raised" /\ cycleNo = 0 /\ op.exc # ""

\* C26: a component whose input or output URI has an unrecognized scheme
\* fails in its constructor, before any cycle, with NotImplementedError;
\* with recognized schemes the constructor returns and each adapter is of
\* the class of the scheme, built with the URI minus the scheme prefix.
C26_SchemesAtConstruction ==
    /\ pc = "new" => cycleNo = 0
    /\ (pc # "new" /\ BadScheme) =>
          /\ FailedAtConstruction
          /\ op.exc \in {"NotImplementedError", "KeyError"}
    /\ (pc # "new" /\ ~BadScheme) =>
          /\ pc = "constructed"
          /\ NeedsInput => op.inputMessageProducer = InputAdapterFor(cfg.PYLON_INPUT)
          /\ NeedsOutput => op.outputMessageConsumer = OutputAdapterFor(cfg.PYLON_OUTPUT)
          /\ ~NeedsInput => op.inputMessageProducer = Unset
          /\ ~NeedsOutput => op.outputMessageConsumer = Unset

\* the component, or an adapter it needs, is of a class that cannot be
\* instantiated
NeedsAbstract ==
    \/ cfg.kind = "NullComponent"
    \/ NeedsInput /\ cfg.PYLON_INPUT = Str("sqs://q")
    \/ NeedsOutput /\ cfg.PYLON_OUTPUT \in {Str("sqs://q"), Str("sns://topic")}

\* what holds instead: as C26, but only the folder adapter can be built;
\* a queue or topic adapter, and a NullComponent, make the constructor
\* raise TypeError
C26_OnlyFolderIsBuilt ==
    /\ pc = "new" => cycleNo = 0
    /\ (pc # "new" /\ (BadScheme \/ NeedsAbstract)) =>
          /\ FailedAtConstruction
          /\ op.exc \in {"NotImplementedError", "KeyError", "TypeError"}
          /\ (~BadScheme) => op.exc = "TypeError"
    /\ (pc # "new" /\ ~BadScheme /\ ~NeedsAbstract) =>
          /\ pc = "constructed"
          /\ NeedsInput => op.inputMessageProducer = InputAdapterFor(cfg.PYLON_INPUT)
          /\ NeedsOutput => op.outputMessageConsumer = OutputAdapterFor(cfg.PYLON_OUTPUT)
          /\ ~NeedsInput => op.inputMessageProducer = Unset
          /\ ~NeedsOutput => op.outputMessageConsumer = Unset

\* the configured store destination is not an s3:// one
UnsupportedStore ==
    /\ ~IsNone(cfg.PYLON_STORE_DESTINATION)
    /\ cfg.PYLON_STORE_DESTINATION # Str("s3://store")

\* C27: with a store destination of an unrecognized scheme the component
\* fails at construction: no cycle ever runs, and no cycle raises and logs
\* the configuration error.
C27_StoreSchemeFatalAtConstruction ==
    UnsupportedStore =>
        /\ cycleNo = 0
        /\ \A i \in DOMAIN log :
              ~(log[i].level = "exception" /\ log[i].text = "NotImplementedError")

\* what holds instead: the destination is looked at when an output message
\* is prepared, so every cycle with a message to send raises there, sends
\* nothing and does not acknowledge its input
C27_StoreSchemeFailsEachCycle ==
    (UnsupportedStore /\ cfg.hasOutput /\ results # Unset /\ NonNoneResults # <<>>
        /\ CycleOver) =>
        /\ exc = [type |-> "NotImplementedError", origin |-> "store"]
        /\ SentInCycle = {}
        /\ ~(Fetched /\ Acked)

----------------------------------------------------------------------------
(* A message the Sink refuses as too large *)

\* the word occurs in the text
Contains(text, word) ==
    \E i \in 1..(Len(text) - Len(word) + 1) : SubSeq(text, i, i + Len(word) - 1) = word

\* the running cycle ended on MessageTooLarge
TooLarge == exc # NoExc /\ exc.type = "MessageTooLarge"

\* C28: when the Sink raises MessageTooLarge for a message, the exception
\* that ends the cycle is a MessageTooLarge whose text names
\* PYLON_STORE_DESTINATION and PYLON_STORE_MIN_MESSAGE_BYTES; the cycle is
\* over at once, with the refused message not sent and the rest of the
\* result not iterated, the input not acknowledged and no lineage record;
\* the exception is logged, or propagated when the flag is set.
C28_TooLargeNamesOffload ==
    TooLarge =>
        /\ exc.origin = "sink"
        /\ "text" \in DOMAIN exc
        /\ Contains(exc.text, "PYLON_STORE_DESTINATION")
        /\ Contains(exc.text, "PYLON_STORE_MIN_MESSAGE_BYTES")
        /\ CycleOver
        /\ current # None
        /\ Len(SentSeq) < Len(NonNoneResults)
        /\ ~LineageLogged
        /\ Fetched => (~Acked /\ (cfg.input # "pseudo" => AtSource))
        /\ IF allow THEN propagated = exc /\ pc = "raised"
           ELSE ExceptionLogged /\ propagated = NoExc

\* C28 witness: the first of two messages was sent, the second was refused
\* as too large; the cycle is over and its input is still at the Source
C28_Witness ==
    /\ TooLarge
    /\ Fetched
    /\ cfg.input = "folder"
    /\ Len(SentSeq) = 1
    /\ Len(NonNoneResults) = 2
    /\ current # None
    /\ AtSource
    /\ ~Acked

----------------------------------------------------------------------------
(* What the codecs put on the wire *)

\* the body of the message as the codec serializes it, before any filling
Serialized(m) == IF m.body.t = "obj" THEN toJSON(m.body) ELSE m.body

C29_CheckedInOnWire ==
    /\ op.last = "encode"
    /\ op.prev = "offload"
    /\ isCheckedIn(op.arg)
    /\ ~isCheckedIn(op.arg0)
    /\ Serialized(op.arg0) \in {None, Str("")}
    /\ wireBody(op.arg0) = Str(Placeholder)
    /\ "payloadStoreKey" \in DOMAIN op.wire.attributes

----------------------------------------------------------------------------
(* lambda_handler over the records of an event *)

LambdaWithInput == cfg.driver = "lambda_handler" /\ cfg.hasInput

\* the records the pseudo-queue still holds are the event's records after
\* those the cycles so far took, in event order: cycle k takes record k
InEventOrder ==
    LET taken == IF pc = "fetch" THEN cycleNo - 1 ELSE cycleNo
    IN  /\ \A i \in DOMAIN source : source[i].id = taken + i
        /\ \A i \in DOMAIN deleted : deleted[i].id <= taken
        /\ handle # None => handle.id = cycleNo

\* lambda_handler on a component with an input: every runOnce has the
\* propagation flag, cycle k works on record k of the event, the handler
\* returns only when no record is left, after as many cycles as there were
\* records; an exception raised in a cycle, unless of a class in
\* `swallowed`, is raised to the handler's caller, and the records after
\* it are still in the pseudo-queue
LambdaCycles(swallowed) ==
    LambdaWithInput =>
        /\ cycleNo > 0 => allow
        /\ InEventOrder
        /\ pc = "returned" => source = <<>>
        /\ (pc = "returned" /\ Len(deleted) = cycleNo) =>
               \A i \in DOMAIN deleted : deleted[i].id = i
        /\ (exc # NoExc /\ exc.type \notin swallowed) =>
               /\ pc = "raised"
               /\ propagated = exc
        /\ pc = "raised" => exc # NoExc /\ propagated = exc

\* C30: lambda_handler on a component with an input runs runOnce with
\* exception propagation once per record of the event, in event order, and
\* returns after as many cycles as the event has records; when the cycle
\* of a record raises, the exception reaches the handler's caller and the
\* records after it are not processed.
C30_LambdaOncePerRecord == LambdaCycles({})

\* the same, but for a NoMessagesAvailable raised inside the cycle, which
\* runOnce passes over
C30_LambdaOncePerRecordBut == LambdaCycles({"NoMessagesAvailable"})

\* the handler returned after two cycles, one per record, both committed
C30_ReturnedAfterAll ==
    /\ LambdaWithInput
    /\ pc = "returned"
    /\ cycleNo = MaxQueue
    /\ Len(deleted) = MaxQueue
    /\ exc = NoExc

\* the cycle of the first of two records raised: the handler raised and
\* the second record was never taken
C30_RaisedAtFirst ==
    /\ LambdaWithInput
    /\ pc = "raised"
    /\ cycleNo = 1
    /\ Len(source) = 1
    /\ source[1].id = 2

\* the cycle of the first record raised NoMessagesAvailable and the
\* handler went on to the second record
C30_WentOnAfterRaise ==
    /\ LambdaWithInput
    /\ cycleNo = 2
    /\ handle # None
    /\ source = <<>>
    /\ deleted = <<>>

----------------------------------------------------------------------------
(* The pseudo-queue of a lambda event *)

\* the ids of the records of a sequence
IdsOf(q) == [i \in DOMAIN q |-> q[i].id]

\* what one step of a with-statement on getMessage does to the queue
PseudoStep ==
    /\ (op'.last = "getMessage" /\ source # <<>>) =>
          /\ Len(source') = Len(source) - 1
          /\ source' = Tail(source)
          /\ (hist' # hist =>
                /\ hist' = Append(hist, Head(source).id)
                /\ handle' = Head(source)
                /\ message' = decodeMessage(Head(source).raw.body,
                                            Head(source).raw.attributes).msg)
    /\ (op'.last = "getMessage" /\ source = <<>>) =>
          /\ exc'.type = "IndexError"
          /\ UNCHANGED <<source, deleted, hist>>
    /\ op'.last # "getMessage" => source' = source
    /\ deleted' # deleted <=> op'.last = "exit"
    /\ op'.last = "exit" => (deleted' = Append(deleted, handle) /\ exc' = NoExc)
    /\ op'.last = "raise" => exc' # NoExc

\* C31: a PseudoQueue delivers the head record at each getMessage, in event
\* order and none twice; len(queue) drops by exactly one per getMessage on
\* a queue that is not empty; a record is appended to deleted exactly when
\* its with-body completes without error; getMessage on an empty queue
\* raises IndexError and changes nothing.
C31_PseudoQueueDelivery ==
    /\ [](\A i \in DOMAIN hist : \A j \in DOMAIN hist : i < j => hist[i] < hist[j])
    /\ [](\A i \in DOMAIN deleted : \E j \in DOMAIN hist : hist[j] = deleted[i].id)
    /\ [][PseudoStep]_vars

\* C31 witness: of two records the first was delivered and its with-body
\* raised, the second was delivered and completed, and a third getMessage
\* raised IndexError: only the second record is in deleted
C31_Witness ==
    /\ cfg = [input |-> "pseudo"]
    /\ hist = <<1, 2>>
    /\ IdsOf(deleted) = <<2>>
    /\ source = <<>>
    /\ op.last = "getMessage"
    /\ exc.type = "IndexError"

----------------------------------------------------------------------------
(* The approximate size of a message *)

\* the eight fields of a message: body and the seven attribute fields
SlotNames ==
    {"body", "payloadMimeType", "objectType", "customAttributes", "payloadStoreKey",
     "ingestionId", "artifactName", "artifactVersion"}

\* the length of the string form of a field's value
ValueLen(m, k) ==
    IF k = "customAttributes"
    THEN (IF m[k] = EmptyDict THEN 2 ELSE DictStrLen(m[k]))
    ELSE IF m[k] = None THEN 4
    ELSE IF m[k].t = "obj" THEN Len(toJSON(m[k]).v)
    ELSE Len(m[k].v)

RECURSIVE SumOverFields(_, _)
SumOverFields(m, ks) ==
    IF ks = {} THEN 0
    ELSE LET k == CHOOSE x \in ks : TRUE
         IN  Len(k) + ValueLen(m, k) + SumOverFields(m, ks \ {k})

\* C32: getApproxSize of a message is the sum over its eight fields of the
\* length of the field's name and of the string form of its value, with 4
\* for a None value and 2 for an empty customAttributes; the offload step
\* calls the store exactly when this number is at or above the configured
\* threshold.
C32_SizeIsSumOverFields ==
    /\ Cardinality(SlotNames) = 8
    /\ getApproxSize(BaseMessage(Str("hello"), Str("text"), Str(OT_RAW_CONTENT))) = 135
    /\ op.msg # None => getApproxSize(op.msg) = SumOverFields(op.msg, SlotNames)
    /\ OffloadDecided =>
          /\ getApproxSize(op.arg) = SumOverFields(op.arg, SlotNames)
          /\ (~IsNone(cfg.PYLON_STORE_DESTINATION)
                /\ ~IsNone(cfg.PYLON_STORE_MIN_MESSAGE_BYTES)) =>
                (StoreCalled <=>
                    SumOverFields(op.arg, SlotNames) >= cfg.PYLON_STORE_MIN_MESSAGE_BYTES.v)

\* C32 witness: a message with None fields and an empty customAttributes,
\* one character short of the threshold, was left as it is by the offload step
C32_Witness ==
    /\ OffloadDecided
    /\ ~IsNone(cfg.PYLON_STORE_DESTINATION)
    /\ ~IsNone(cfg.PYLON_STORE_MIN_MESSAGE_BYTES)
    /\ op.arg.customAttributes = EmptyDict
    /\ op.arg.ingestionId = None
    /\ SumOverFields(op.arg, SlotNames) + 1 = cfg.PYLON_STORE_MIN_MESSAGE_BYTES.v
    /\ ~StoreCalled

----------------------------------------------------------------------------
(* The order of sends, lineage record and acknowledgement in a cycle *)

\* every output of the running cycle has been handed to the Sink
AllSent ==
    /\ pending = <<>>
    /\ current = None
    /\ (cfg.hasOutput /\ results # Unset) => Len(SentSeq) = Len(NonNoneResults)

\* C33: the input of a cycle is acknowledged only once every output of the
\* cycle has been handed to the Sink and the lineage record has been
\* logged; the step that acknowledges sends nothing, and after the
\* acknowledgement nothing more is sent and no lineage record is logged in
\* that cycle.
C33_AckAfterEverySend ==
    /\ []((Fetched /\ Acked) => (AllSent /\ LineageLogged /\ exc = NoExc))
    /\ [][deleted' # deleted =>
             /\ AllSent
             /\ LineageLogged
             /\ UNCHANGED <<sink, log, cycleNo>>
             /\ deleted' = Append(deleted, handle)]_vars
    /\ [][(Fetched /\ Acked /\ cycleNo' = cycleNo) =>
             /\ UNCHANGED <<sink, deleted>>
             /\ \A i \in DOMAIN log' \ DOMAIN log : log'[i].text # "INGESTION_STEP"]_vars

\* C33 witness: a cycle acknowledged its input with two outputs at the Sink
\* and its lineage record in the log
C33_Witness ==
    /\ Fetched
    /\ Acked
    /\ cfg.input = "sqs"
    /\ Len(SentSeq) = 2
    /\ Len(NonNoneResults) = 2
    /\ LineageLogged

----------------------------------------------------------------------------
(* The end of runForever *)

\* C34: once a signal has set the shutdown flag, runForever returns,
\* whether the signal arrived before the first cycle, during a cycle or
\* during the sleep, and whether the cycles succeed or fail.
C34_SignalledLoopReturns == shutdown ~> (pc = "returned")

\* C34 witness: the signal arrived during a cycle, the cycle went on and
\* failed, and runForever returned after it
C34_Witness ==
    /\ cfg.driver = "runForever"
    /\ pc = "returned"
    /\ shutdown
    /\ signals = <<<<1, "cycle">>>>
    /\ cycleNo = 1
    /\ exc # NoExc

----------------------------------------------------------------------------
(* A Source that commits on success, drained by repeated cycles *)

\* the cycles so far that logged their lineage record
SucceededCycles ==
    {c \in 1..cycleNo : \E i \in DOMAIN log : log[i].cycle = c /\ log[i].text = "INGESTION_STEP"}

\* the cycle found the Source empty
FoundEmpty == cycleNo > 0 /\ pc # "fetch" /\ handle = None /\ source = <<>>

\* runForever on a Source of one of these kinds: the messages removed are
\* those of the cycles that succeeded, one each and none twice; no message
\* arrives or is lost; a cycle that finds the Source empty does nothing and
\* logs nothing (a signal handler may log during it)
DrainedBySuccess(inputs) ==
    (cfg.driver = "runForever" /\ cfg.input \in inputs) =>
        /\ Len(deleted) = Cardinality(SucceededCycles) - (IF pc = "commit" THEN 1 ELSE 0)
        /\ \A i \in DOMAIN deleted : \A j \in DOMAIN deleted : i # j => deleted[i].id # deleted[j].id
        /\ \A i \in DOMAIN deleted : \A j \in DOMAIN source : deleted[i].id # source[j].id
        /\ {deleted[i].id : i \in DOMAIN deleted} \cup {source[i].id : i \in DOMAIN source}
              = 1..(Len(deleted) + Len(source))
        /\ FoundEmpty =>
              /\ CycleOver
              /\ hist = <<>>
              /\ SentInCycle = {}
              /\ \A i \in DOMAIN log :
                    log[i].cycle = cycleNo => log[i].text = "Signal received, waiting for loop..."

\* C35: on a Source that commits on success (folder or queue), with no
\* arrivals, every cycle that succeeds removes exactly the one message it
\* processed, so that N successful cycles leave a Source of N messages
\* empty; every later cycle is a silent no-op; a message whose processing
\* fails in every cycle is never removed.
C35_DrainedExactlyOnce == DrainedBySuccess({"folder", "sqs"})

\* the same for the folder source alone
C35_FolderDrainedExactlyOnce == DrainedBySuccess({"folder"})

\* a folder of one message was emptied by the first cycle and the second
\* cycle was a silent no-op
C35_FolderDrained ==
    /\ cfg.driver = "runForever"
    /\ cfg.input = "folder"
    /\ cycleNo = 2
    /\ FoundEmpty
    /\ Len(deleted) = 1
    /\ SucceededCycles = {1}

\* a folder message whose processing failed in both cycles is still there
C35_FailingStays ==
    /\ cfg.driver = "runForever"
    /\ cfg.input = "folder"
    /\ cycleNo = 2
    /\ CycleOver
    /\ SucceededCycles = {}
    /\ Len(source) = 1
    /\ deleted = <<>>
    /\ AtSource

----------------------------------------------------------------------------
(* Custom attributes and the fields of the envelope *)

\* the decoded message has the fixed fields of the encoded one
SameFixedFields(a, b) ==
    \A f \in FixedNames \cup {"payloadStoreKey"} : a[f] = b[f]

\* C36: decoding the encoding of a message gives the fixed fields of the
\* message, whatever its custom attributes, also when one of them has the
\* name of a fixed attribute; a message that is not checked in does not
\* decode as checked in.
C36_FixedFieldsIgnoreCustom ==
    EncodedThenDecoded =>
        /\ op.exc = ""
        /\ SameFixedFields(op.msg, op.arg)
        /\ ~isCheckedIn(op.arg) => ~isCheckedIn(op.msg)

\* the same for messages whose custom attributes have names of their own
\* and whose fields do not hold the text 'None'
C36_FixedFieldsOfOwnNames ==
    (EncodedThenDecoded /\ CustomNamesApart(op.arg) /\ NoneIsNotText(op.arg)) =>
        /\ op.exc = ""
        /\ SameFixedFields(op.msg, op.arg)
        /\ ~isCheckedIn(op.arg) => ~isCheckedIn(op.msg)

\* a message that was not checked in, with a custom attribute named
\* payloadStoreKey, decoded as checked in under the attribute's value
C36_DecodedAsCheckedIn ==
    /\ EncodedThenDecoded
    /\ op.exc = ""
    /\ ~isCheckedIn(op.arg)
    /\ "payloadStoreKey" \in DOMAIN op.arg.customAttributes
    /\ op.msg.payloadStoreKey = Str("v")
    /\ op.msg.body = Str("a")

\* the ingestionId of an ingestion step message is the one fixed field a
\* custom attribute of its name does not replace
C36_StepKeepsItsId ==
    /\ EncodedThenDecoded
    /\ op.exc = ""
    /\ "ingestionId" \in DOMAIN op.arg.customAttributes
    /\ op.arg.objectType = Str(OT_INGESTION_STEP)
    /\ op.msg.ingestionId = op.arg.ingestionId

----------------------------------------------------------------------------
(* An input checked in under the key of another store *)

\* the cycle holds an input whose store key does not start with s3://, and
\* is past its retrieval
ForeignInputSeen ==
    /\ Fetched
    /\ isCheckedIn(Yielded)
    /\ ~startswith(PyStr(Yielded.payloadStoreKey), "s3://")
    /\ pc \notin {"lineage", "input"}

\* C37: a cycle whose input is checked in under a key that does not start
\* with s3:// ends on NotImplementedError raised by the retrieval: the user
\* function is not called, the store is not read, nothing is sent, no
\* lineage record is logged and the input is not acknowledged; the
\* exception is logged, or propagated when the flag is set.
C37_ForeignKeyEndsTheCycle ==
    ForeignInputSeen =>
        /\ CycleOver
        /\ exc = [type |-> "NotImplementedError", origin |-> "store"]
        /\ hist = <<>>
        /\ UserCalls = 0
        /\ results = Unset
        /\ SentInCycle = {}
        /\ ~LineageLogged
        /\ ~Acked
        /\ cfg.input # "pseudo" => AtSource
        /\ IF allow THEN propagated = exc /\ pc = "raised"
           ELSE ExceptionLogged

\* C37 witness: the folder's message with the key gcs://in/a ended two
\* cycles on NotImplementedError and is still in the folder
C37_Witness ==
    /\ ForeignInputSeen
    /\ cfg.input = "folder"
    /\ cycleNo = 2
    /\ Yielded.payloadStoreKey = Str("gcs://in/a")
    /\ exc.type = "NotImplementedError"
    /\ AtSource
    /\ Len(log) = 2

----------------------------------------------------------------------------
(* The chunks of chunked *)

RECURSIVE Flatten(_)
Flatten(chunks) == IF chunks = <<>> THEN <<>> ELSE Head(chunks) \o Flatten(Tail(chunks))

\* the chunks yielded so far are full and in order, and with the chunk
\* being filled and the rest of the iterator they are the input
ChunksSoFar ==
    /\ \A i \in DOMAIN sink : Len(sink[i]) >= 1 /\ Len(sink[i]) <= cfg.chunkSize
    /\ \A i \in DOMAIN sink : (i < Len(sink) \/ pc # "done") => Len(sink[i]) = cfg.chunkSize
    /\ IF pc = "done"
       THEN Flatten(sink) = cfg.iterable /\ source = <<>>
       ELSE Flatten(sink) \o pending \o source = cfg.iterable

\* the chunks of the generator that has returned: none for an empty input,
\* a last one of len(s) modulo k elements unless that is zero
ChunksAtEnd ==
    pc = "done" =>
        LET n == Len(cfg.iterable)
            k == cfg.chunkSize
        IN  /\ Len(sink) = (n + k - 1) \div k
            /\ n = 0 => sink = <<>>
            /\ n > 0 => Len(sink[Len(sink)]) = (IF n % k = 0 THEN k ELSE n % k)

\* C38: for every finite sequence s and chunk size k >= 1 the chunks that
\* chunked(s, k) yields, concatenated, are s; every chunk but the last has
\* k elements, the last has between 1 and k; no empty chunk is yielded,
\* none at all for an empty s and no trailing one when len(s) is a multiple
\* of k; and the generator returns.
C38_ChunksPartitionTheInput ==
    /\ [](ChunksSoFar /\ ChunksAtEnd)
    /\ <>(pc = "done")

\* C38 witness: six elements in chunks of three gave two chunks and the
\* generator returned
C38_Witness ==
    /\ pc = "done"
    /\ "chunkSize" \in DOMAIN cfg
    /\ cfg.chunkSize = 3
    /\ Len(cfg.iterable) = 6
    /\ sink = << <<1, 2, 3>>, <<4, 5, 6>> >>

====
